---- MODULE Spec2Model ----
(***************************************************************************)
(* Model of the automation-exercise framework:                             *)
(*   - core/locator_strategy.py  LocatorUtility (multi-locator fallback)   *)
(*   - core/driver_factory.py    DriverFactory (session provisioning)      *)
(*   - core/conftest.py, core/base_test.py   the driver fixtures           *)
(*   - reporting/manager.py, reporting/allure_reporter.py   reporting      *)
(*   - config/config_loader.py   ConfigLoader (cache, get, browser matrix) *)
(* The browser engine (Playwright) is the environment: every engine call   *)
(* answers nondeterministically (visible / timeout / error).               *)
(***************************************************************************)
EXTENDS Integers, Sequences, FiniteSets, TLC

\* ------------------------------------------------------------------ bounds
MaxLocators == 2

\* ======================================================================
\*  LocatorUtility                                   core/locator_strategy.py
\* ======================================================================
VARIABLES
    op,           \* which public method of LocatorUtility the caller invoked
    locators,     \* the `locators` argument: sequence of [type, value]
    clear_first,  \* the `clear_first` argument of type_text
    l_pc,         \* position inside the call
    idx,          \* loop index of find_element (1-based, as enumerate(start=1))
    errors,       \* find_element's local list `errors`
    attempts,     \* history of the engine's answers: <<[idx, outcome]>>
    calls,        \* history of engine calls issued: <<[api, arg, idx]>>
    log,          \* history of logger records: <<[level, kind, idx]>>
    found,        \* how find_element ended: element returned / exception raised
    result        \* how the public method ended

lvars == <<op, locators, clear_first, l_pc, idx, errors, attempts, calls, log,
           found, result>>

VARIABLES
    d_pc,            \* "new", "idle", "in_get_driver", "ready", "raised", "closed"
    remote,          \* self.remote
    remote_url,      \* self.remote_url ("None" when unset)
    max_retries,     \* get_driver's max_retries after the None default
    attempt,         \* get_driver's loop variable
    handles,         \* self._page, self._context, self._browser, self._playwright
    live,            \* engine resources acquired and not yet released
    attempts_made,   \* creation attempts of the current get_driver call
    sleeps,          \* time.sleep(retry_delay) calls of the current call
    d_log,           \* history of the current call: "sleep" / "attempt" events
    last_exception,  \* get_driver's last_exception
    d_result,        \* how get_driver ended
    d_hist           \* history: [earlier, quits, released, faults, double, quit]

dvars == <<d_pc, remote, remote_url, max_retries, attempt, handles, live,
           attempts_made, sleeps, d_log, last_exception, d_result, d_hist>>

VARIABLES
    fixture,         \* which driver fixture runs: "core_conftest" or "base_test"
    f_pc,            \* position inside the fixture generator
    factory,         \* the fixture's local `factory` is not None
    page_instance,   \* the fixture's local page_instance / driver_instance
    outcome,         \* "none", "passed", "failed", "setup_error"
    f_creates,       \* get_driver invocations made by the fixture
    f_quits,         \* quit_driver invocations made by the fixture
    f_raised,        \* the fixture re-raised the setup exception
    f_teardown,      \* teardown-time errors: <<[step, handled]>>
    f_escaped        \* the exception that leaves the fixture: "none", "setup", "teardown"

fvars == <<fixture, f_pc, factory, page_instance, outcome, f_creates, f_quits,
           f_raised, f_teardown, f_escaped>>

VARIABLES
    r_instance,      \* ReportingManager._instance (None or the backend object)
    r_type,          \* ReportingManager._reporter_type ("None" when unset)
    r_created,       \* backend objects constructed so far (gives each its identity)
    r_last,          \* the operation just performed: [op, arg, lib]
    r_result         \* how the operation just performed ended

rvars == <<r_instance, r_type, r_created, r_last, r_result>>

VARIABLES
    c_files,         \* the YAML files on disk, by configuration name
    c_cache,         \* ConfigLoader._config_cache
    c_call,          \* the arguments of the get call under study: [key, name, default]
    c_last,          \* the operation just performed: [op, name, key, default, reads]
    c_result         \* how the operation just performed ended

cvars == <<c_files, c_cache, c_call, c_last, c_result>>

VARIABLES
    u_init,          \* the arguments and inputs of DriverFactory.__init__
    u_resolved,      \* self.remote / self.remote_url after line 155-173
    u_url,           \* self.remote_url seen by _create_remote_driver
    u_endpoint       \* the websocket endpoint built at line 404-408

uvars == <<u_init, u_resolved, u_url, u_endpoint>>

VARIABLES
    p_heap,          \* the dictionaries of the test process, by object identity
    p_orig,          \* history: the caller's profile as it was handed over
    p_self,          \* the factory: [browser_profile (a reference), profile_name, remote]
    p_pc,            \* "new", "idle", "ready", "closed"
    p_caps           \* what get_driver derived from the profile

pvars == <<p_heap, p_orig, p_self, p_pc, p_caps>>

VARIABLES
    t_pc,            \* per thread: position inside its ConfigLoader call
    t_op,            \* per thread: the call it makes, [op, name]
    t_data,          \* per thread: load_config's local config_data
    t_result,        \* per thread: how its call ended
    t_stale,         \* history: threads whose file read predates an invalidation
    t_written        \* history: a file changed while the calls were running

tvars == <<t_pc, t_op, t_data, t_result, t_stale, t_written>>

\* the subsystems outside the core package
ext == <<rvars, cvars, uvars, pvars, tvars>>
\* the core package
core == <<lvars, dvars, fvars>>

vars == <<core, ext>>

ElementName == "Element"

LocatorTypes == {"xpath", "css", "id", "text", "role", "CSS", "bogus"}
LocatorValues == {"", "v"}
LocatorDicts == [type : LocatorTypes, value : LocatorValues]
Ops == {"find_element", "click_element", "type_text", "get_text", "is_visible"}

RECURSIVE SeqsUpTo(_, _)
SeqsUpTo(S, n) ==
    IF n = 0 THEN {<<>>}
    ELSE LET shorter == SeqsUpTo(S, n - 1)
         IN  shorter \cup {Append(s, x) : s \in {t \in shorter : Len(t) = n - 1}, x \in S}

\* str.lower() / str.upper() on the strategy names the model draws from
Lower(t) == IF t = "CSS" THEN "css" ELSE t

Upper(t) ==
    CASE t = "xpath" -> "XPATH"
      [] t = "css"   -> "CSS"
      [] t = "id"    -> "ID"
      [] t = "text"  -> "TEXT"
      [] t = "role"  -> "ROLE"
      [] t = "bogus" -> "BOGUS"
      [] OTHER       -> t

KnownTypes == {"xpath", "css", "id", "text", "role"}

\* locator_dict.get('type', '').lower() and locator_dict.get('value', '')
locator_type(d) == Lower(d.type)
locator_value(d) == d.value

\* the if/elif chain that turns a strategy into an engine query
EngineQuery(t, v) ==
    CASE t = "xpath" -> [api |-> "locator",     arg |-> "xpath=" \o v]
      [] t = "css"   -> [api |-> "locator",     arg |-> v]
      [] t = "id"    -> [api |-> "locator",     arg |-> "#" \o v]
      [] t = "text"  -> [api |-> "get_by_text", arg |-> v]
      [] t = "role"  -> [api |-> "get_by_role", arg |-> v]

QueryApis == {"locator", "get_by_text", "get_by_role"}

\* str(n) for the small numbers that appear in messages
Digits == <<"1", "2", "3", "4", "5", "6", "7", "8", "9">>
Str(n) == IF n = 0 THEN "0" ELSE IF n <= 9 THEN Digits[n] ELSE "10+"

TimeoutReason == "Element not visible within timeout"
EngineErrorText == "boom"     \* str(e) of a non-timeout engine exception

\* error_msg of the two except branches
FailureMsg(t, v, reason) == Upper(t) \o ": " \o v \o " - " \o reason

\* mutant: the failure is logged but not appended to `errors`
RecordFailure_Dropped(errs, msg) == errs

\* errors.append(error_msg)
RecordFailure(errs, msg) == Append(errs, msg)

\* error_summary, after .strip(): the header, then one numbered line per
\* recorded error (the trailing newline is stripped)
RECURSIVE SummaryLines(_, _)
SummaryLines(errs, k) ==
    IF k > Len(errs) THEN ""
    ELSE "\n  " \o Str(k) \o ". " \o errs[k] \o SummaryLines(errs, k + 1)

\* mutant: the header counts the enumerated attempts, not the list
ErrorSummary_CountsAttempts(name, n, errs) ==
    name \o ": All " \o Str(Len(errs)) \o " locator(s) failed:" \o SummaryLines(errs, 1)

ErrorSummary(name, n, errs) ==
    name \o ": All " \o Str(n) \o " locator(s) failed:" \o SummaryLines(errs, 1)

None == [kind |-> "None"]
Element(i, q) == [kind |-> "element", idx |-> i, api |-> q.api, arg |-> q.arg]
Raised(exc, msg) == [kind |-> "raise", exc |-> exc, msg |-> msg]
Returned(v) == [kind |-> "return", value |-> v]

\* mutant: the loop goes on to the next entry after a success
OnVisible_KeepsLooping(i) == [pc |-> "loop", idx |-> i + 1]

\* where the loop goes after an entry was found visible: `return locator`
OnVisible(i) == [pc |-> "returned", idx |-> i]

\* mutant: `break` instead of `continue`, the remaining entries are not tried
OnContinue_Breaks(i) == [pc |-> "loop", idx |-> Len(locators) + 1]

\* where the loop goes after an entry was skipped or failed: next iteration
OnContinue(i) == [pc |-> "loop", idx |-> i + 1]

\* mutant: the emptiness check is missing
NoLocators_Unchecked(ls) == FALSE

\* line 58: `not locators`
NoLocators(ls) == ls = <<>>

\* mutant: is_visible has no try/except, find_element's exception propagates
OnFindRaised_Propagates(f) == f

\* line 209-210: `except Exception: return False`
OnFindRaised(f) == Returned(FALSE)

LInit ==
    /\ op \in Ops
    /\ locators \in SeqsUpTo(LocatorDicts, MaxLocators)
    /\ clear_first \in (IF op = "type_text" THEN BOOLEAN ELSE {TRUE})
    /\ l_pc = "call"
    /\ idx = 0
    /\ errors = <<>>
    /\ attempts = <<>>
    /\ calls = <<>>
    /\ log = <<>>
    /\ found = None
    /\ result = None

\* line 58-59: `if not locators: raise ValueError`
FindNoLocators ==
    /\ l_pc = "call"
    /\ NoLocators(locators)
    /\ found' = Raised("ValueError", ElementName \o ": No locators provided")
    /\ l_pc' = "returned"
    /\ UNCHANGED <<op, locators, clear_first, idx, errors, attempts, calls, log, result>>
    /\ UNCHANGED <<dvars, fvars, ext>>

\* line 61-63: errors = [], the loop starts at idx 1
FindBegin ==
    /\ l_pc = "call"
    /\ ~NoLocators(locators)
    /\ errors' = <<>>
    /\ idx' = 1
    /\ l_pc' = "loop"
    /\ UNCHANGED <<op, locators, clear_first, attempts, calls, log, found, result>>
    /\ UNCHANGED <<dvars, fvars, ext>>

InLoop == l_pc = "loop" /\ idx <= Len(locators)

\* mutant: the empty-value check is missing, the entry goes to the engine
EmptyValue_Never(v) == FALSE

\* line 67: `not locator_value`
EmptyValue(v) == v = ""

\* line 67-69: empty value, warn and continue
SkipEmptyValue ==
    /\ InLoop
    /\ EmptyValue(locator_value(locators[idx]))
    /\ log' = Append(log, [level |-> "warning", kind |-> "empty", idx |-> idx])
    /\ l_pc' = OnContinue(idx).pc
    /\ idx' = OnContinue(idx).idx
    /\ UNCHANGED <<op, locators, clear_first, errors, attempts, calls, found, result>>
    /\ UNCHANGED <<dvars, fvars, ext>>

\* line 88-90: unknown strategy, warn and continue (no engine call, no error)
SkipUnknownType ==
    /\ InLoop
    /\ ~EmptyValue(locator_value(locators[idx]))
    /\ locator_type(locators[idx]) \notin KnownTypes
    /\ log' = log \o <<[level |-> "debug", kind |-> "attempt", idx |-> idx],
                       [level |-> "warning", kind |-> "unknown", idx |-> idx]>>
    /\ l_pc' = OnContinue(idx).pc
    /\ idx' = OnContinue(idx).idx
    /\ UNCHANGED <<op, locators, clear_first, errors, attempts, calls, found, result>>
    /\ UNCHANGED <<dvars, fvars, ext>>

Attemptable ==
    /\ InLoop
    /\ ~EmptyValue(locator_value(locators[idx]))
    /\ locator_type(locators[idx]) \in KnownTypes

Query == EngineQuery(locator_type(locators[idx]), locator_value(locators[idx]))
QueryCall == [api |-> Query.api, arg |-> Query.arg, idx |-> idx]
WaitCall == [api |-> "wait_for", arg |-> "visible", idx |-> idx]

\* line 78-99: the engine finds the element visible within the timeout
AttemptVisible ==
    /\ Attemptable
    /\ calls' = calls \o <<QueryCall, WaitCall>>
    /\ attempts' = Append(attempts, [idx |-> idx, outcome |-> "visible"])
    /\ log' = log \o <<[level |-> "debug", kind |-> "attempt", idx |-> idx],
                       [level |-> "info", kind |-> "success", idx |-> idx]>>
    /\ found' = Element(idx, Query)
    /\ l_pc' = OnVisible(idx).pc
    /\ idx' = OnVisible(idx).idx
    /\ UNCHANGED <<op, locators, clear_first, errors, result>>
    /\ UNCHANGED <<dvars, fvars, ext>>

\* line 93, 101-104: wait_for times out
AttemptTimeout ==
    /\ Attemptable
    /\ calls' = calls \o <<QueryCall, WaitCall>>
    /\ attempts' = Append(attempts, [idx |-> idx, outcome |-> "timeout"])
    /\ errors' = RecordFailure(errors, FailureMsg(locator_type(locators[idx]),
                                   locator_value(locators[idx]), TimeoutReason))
    /\ log' = log \o <<[level |-> "debug", kind |-> "attempt", idx |-> idx],
                       [level |-> "debug", kind |-> "failed", idx |-> idx]>>
    /\ l_pc' = OnContinue(idx).pc
    /\ idx' = OnContinue(idx).idx
    /\ UNCHANGED <<op, locators, clear_first, found, result>>
    /\ UNCHANGED <<dvars, fvars, ext>>

\* line 105-108: the query or wait_for raises another exception
AttemptError ==
    /\ Attemptable
    /\ \E at \in {"query", "wait_for"} :
          calls' = calls \o (IF at = "query" THEN <<QueryCall>>
                             ELSE <<QueryCall, WaitCall>>)
    /\ attempts' = Append(attempts, [idx |-> idx, outcome |-> "error"])
    /\ errors' = RecordFailure(errors, FailureMsg(locator_type(locators[idx]),
                                   locator_value(locators[idx]), EngineErrorText))
    /\ log' = log \o <<[level |-> "debug", kind |-> "attempt", idx |-> idx],
                       [level |-> "debug", kind |-> "failed", idx |-> idx]>>
    /\ l_pc' = OnContinue(idx).pc
    /\ idx' = OnContinue(idx).idx
    /\ UNCHANGED <<op, locators, clear_first, found, result>>
    /\ UNCHANGED <<dvars, fvars, ext>>

\* line 110-116: the loop is exhausted, raise the aggregated failure
AllLocatorsFailed ==
    /\ l_pc = "loop"
    /\ idx > Len(locators)
    /\ found' = Raised("Exception", ErrorSummary(ElementName, Len(locators), errors))
    /\ log' = Append(log, [level |-> "error", kind |-> "summary", idx |-> 0])
    /\ l_pc' = "returned"
    /\ UNCHANGED <<op, locators, clear_first, idx, errors, attempts, calls, result>>
    /\ UNCHANGED <<dvars, fvars, ext>>

find_element ==
    \/ FindNoLocators
    \/ FindBegin
    \/ SkipEmptyValue
    \/ SkipUnknownType
    \/ AttemptVisible
    \/ AttemptTimeout
    \/ AttemptError
    \/ AllLocatorsFailed

\* mutant: the action goes to a handle other than the one find_element returned
ElementCall_OtherHandle(api, arg) == [api |-> api, arg |-> arg, idx |-> 0]

\* an engine action on the handle find_element returned
ElementCall(api, arg) == [api |-> api, arg |-> arg, idx |-> found.idx]

\* a logger record of click_element / type_text / get_text (line 135, 137,
\* 160, 166, 188), about the element find_element returned
OpRecord(level, kind) == [level |-> level, kind |-> kind, idx |-> found.idx]

\* find_element raised inside click_element / type_text / get_text: propagates
DerivedRaises ==
    /\ l_pc = "returned"
    /\ op \in {"click_element", "type_text", "get_text"}
    /\ found.kind = "raise"
    /\ result' = found
    /\ l_pc' = "done"
    /\ UNCHANGED <<op, locators, clear_first, idx, errors, attempts, calls, log, found>>
    /\ UNCHANGED <<dvars, fvars, ext>>

\* line 134-137: debug record, element.click(), info record when it returned
click_element ==
    /\ l_pc = "returned"
    /\ op = "click_element"
    /\ found.kind = "element"
    /\ calls' = Append(calls, ElementCall("click", ""))
    /\ \E ok \in BOOLEAN :
          /\ result' = IF ok THEN Returned("None") ELSE Raised("EngineError", EngineErrorText)
          /\ log' = log \o <<OpRecord("debug", "clicking")>> \o
                    (IF ok THEN <<OpRecord("info", "clicked")>> ELSE <<>>)
    /\ l_pc' = "done"
    /\ UNCHANGED <<op, locators, clear_first, idx, errors, attempts, found>>
    /\ UNCHANGED <<dvars, fvars, ext>>

\* line 159-166
type_text ==
    /\ l_pc = "returned"
    /\ op = "type_text"
    /\ found.kind = "element"
    /\ \E failAt \in {"none", "clear", "fill"} :
          /\ failAt = "clear" => clear_first
          /\ calls' = calls \o
                (IF clear_first THEN <<ElementCall("clear", "")>> ELSE <<>>) \o
                (IF failAt = "clear" THEN <<>> ELSE <<ElementCall("fill", "text")>>)
          /\ result' = IF failAt = "none" THEN Returned("None")
                       ELSE Raised("EngineError", EngineErrorText)
          /\ log' = log \o <<OpRecord("debug", "typing")>> \o
                    (IF failAt = "none" THEN <<OpRecord("info", "typed")>> ELSE <<>>)
    /\ l_pc' = "done"
    /\ UNCHANGED <<op, locators, clear_first, idx, errors, attempts, found>>
    /\ UNCHANGED <<dvars, fvars, ext>>

\* line 186-189: inner_text(), then the debug record with the text
get_text ==
    /\ l_pc = "returned"
    /\ op = "get_text"
    /\ found.kind = "element"
    /\ calls' = Append(calls, ElementCall("inner_text", ""))
    /\ \E ok \in BOOLEAN :
          /\ result' = IF ok THEN Returned("inner text") ELSE Raised("EngineError", EngineErrorText)
          /\ log' = log \o (IF ok THEN <<OpRecord("debug", "retrieved")>> ELSE <<>>)
    /\ l_pc' = "done"
    /\ UNCHANGED <<op, locators, clear_first, idx, errors, attempts, found>>
    /\ UNCHANGED <<dvars, fvars, ext>>

\* line 206-210: the engine's answer to element.is_visible() is returned
\* (it is recorded as the call's arg); any exception becomes False
is_visible ==
    /\ l_pc = "returned"
    /\ op = "is_visible"
    /\ \/ /\ found.kind = "element"
          /\ \E answer \in {"True", "False", "raise"} :
                /\ calls' = Append(calls, ElementCall("is_visible", answer))
                /\ result' = IF answer = "raise"
                             THEN OnFindRaised(Raised("EngineError", EngineErrorText))
                             ELSE Returned(answer = "True")
       \/ /\ found.kind = "raise"
          /\ calls' = calls
          /\ result' = OnFindRaised(found)
    /\ l_pc' = "done"
    /\ UNCHANGED <<op, locators, clear_first, idx, errors, attempts, log, found>>
    /\ UNCHANGED <<dvars, fvars, ext>>


\* ======================================================================
\*  DriverFactory                                     core/driver_factory.py
\* ======================================================================
MaxRetries == 2
\* consecutive quit_driver calls followed on one factory
MaxQuits == 2
\* a factory that has already tried to create a driver is followed through
\* further get_driver calls while its creation attempts, over all its calls,
\* stay within this number
MaxAttempts == 2

\* framework_config.get('retries', 2)
DefaultRetries == 2

Kinds == <<"page", "context", "browser", "playwright">>
NoHandles == [page |-> None, context |-> None, browser |-> None,
              playwright |-> None]
\* the resource of kind `kind` acquired by the factory's creation attempt
\* number n, counted from 0 over all its get_driver calls
Res(kind, n) == [kind |-> kind, attempt |-> n]
ReleaseFaults == {"none", "page", "context", "browser", "playwright"}

\* __init__ line 155-173: the remote flag and the endpoint URL.
\* remoteArg, urlArg: the arguments ("None" when omitted); profile: the
\* profile's remote / remote_url ("absent" / "None" when missing); config:
\* framework_config's remote_url / grid_url.
Truthy(u) == u # "None" /\ u # ""
PyOr(a, b) == IF Truthy(a) THEN a ELSE b

ResolveRemote(remoteArg, urlArg, profile, config) ==
    LET r == IF remoteArg # "None" THEN remoteArg = "True"
             ELSE IF profile.remote = "absent" THEN FALSE ELSE profile.remote = "True"
        u == IF remoteArg # "None" THEN urlArg
             ELSE PyOr(urlArg, profile.remote_url)
    IN  [remote |-> r,
         remote_url |-> IF r /\ ~Truthy(u)
                        THEN PyOr(config.remote_url, config.grid_url)
                        ELSE u]

RemoteArgs == {"None", "True", "False"}
UrlArgs == {"None", "", "override"}
Profiles == [remote : {"absent", "True", "False"}, remote_url : {"None", "profile"}]
Configs == [remote_url : {"None", "config"}, grid_url : {"None", "grid"}]

\* d_hist: the creation attempts made by the factory's earlier get_driver
\* calls, the quit_driver calls made in a row and the number of resources
\* they released, whether a release has ever raised, the number of releases
\* of a resource that was already released, and how the last quit_driver
\* ended
NoHistory == [earlier |-> 0, quits |-> 0, released |-> 0, faults |-> FALSE,
              double |-> 0, quit |-> "none"]

DIdle ==
    /\ d_pc = "new"
    /\ remote = FALSE
    /\ remote_url = "None"
    /\ max_retries = 0
    /\ attempt = 0
    /\ handles = NoHandles
    /\ live = {}
    /\ attempts_made = 0
    /\ sleeps = 0
    /\ d_log = <<>>
    /\ last_exception = None
    /\ d_result = None
    /\ d_hist = NoHistory

\* DriverFactory(browser_profile, remote, remote_url) with a usable profile
Construct(remoteArg, urlArg, profile, config) ==
    /\ d_pc = "new"
    /\ remote' = ResolveRemote(remoteArg, urlArg, profile, config).remote
    /\ remote_url' = ResolveRemote(remoteArg, urlArg, profile, config).remote_url
    /\ handles' = NoHandles
    /\ d_pc' = "idle"
    /\ UNCHANGED <<max_retries, attempt, live, attempts_made, sleeps, d_log,
                   last_exception, d_result, d_hist>>

\* line 504-505: max_retries, or the configured 'retries' (default 2)
\* arg, configured: [given |-> BOOLEAN, n |-> the number when given]
EffectiveRetries(arg, configured) ==
    IF arg.given THEN arg.n
    ELSE IF configured.given THEN configured.n ELSE DefaultRetries

\* mutant: range(max_retries), one attempt too few
LoopRuns_TooFew(a, n) == a < n

\* line 511: for attempt in range(max_retries + 1)
LoopRuns(a, n) == a < n + 1

\* mutant: the delay also precedes the first attempt
SleepsBefore_Always(a) == TRUE

\* line 513: a delay before every attempt but the first
SleepsBefore(a) == a > 0

\* len(range(max_retries + 1))
LoopCount(n) == IF n + 1 > 0 THEN n + 1 ELSE 0

\* line 541: the last attempt re-raises
IsLastAttempt(a, n) == a = n

\* get_driver(max_retries): entering the method, line 504-509. The method
\* tests nothing about the factory: it can be called on a factory that
\* holds a session, whose get_driver raised or that was quit, and the
\* handles and the resources behind them are left as they are.
EnterGetDriver(arg, configured) ==
    /\ d_pc \in {"idle", "ready", "raised", "closed"}
    /\ d_hist.earlier + attempts_made > 0 =>
          d_hist.earlier + attempts_made + LoopCount(EffectiveRetries(arg, configured))
              <= MaxAttempts
    /\ max_retries' = EffectiveRetries(arg, configured)
    /\ attempt' = 0
    /\ attempts_made' = 0
    /\ sleeps' = 0
    /\ d_log' = <<>>
    /\ last_exception' = None
    /\ d_result' = None
    /\ d_pc' = "in_get_driver"
    /\ d_hist' = [d_hist EXCEPT !.earlier = @ + attempts_made,
                                !.quits = 0, !.released = 0]
    /\ UNCHANGED <<remote, remote_url, handles, live>>

\* the steps of _create_local_driver / _create_remote_driver that may raise
CreationSteps ==
    IF remote
    THEN IF ~Truthy(remote_url) THEN <<"url">>
         ELSE <<"start", "connect", "context", "page">>
    ELSE <<"start", "launch", "context", "page">>

\* the step at which this attempt fails ("none": it succeeds)
FailSteps ==
    IF remote /\ ~Truthy(remote_url) THEN {"url"}
    ELSE {CreationSteps[k] : k \in 1..Len(CreationSteps)} \cup {"none"}

\* line 328-355 / 376-432: the handles assigned before step `failStep` raises
Created(h, n, failStep) ==
    LET reached(step) ==
            \/ failStep = "none"
            \/ /\ failStep # "url"
               /\ \E i, j \in 1..Len(CreationSteps) :
                     CreationSteps[i] = step /\ CreationSteps[j] = failStep /\ i < j
    IN  [playwright |-> IF reached("start") THEN Res("playwright", n) ELSE h.playwright,
         browser    |-> IF reached(IF remote THEN "connect" ELSE "launch")
                        THEN Res("browser", n) ELSE h.browser,
         context    |-> IF reached("context") THEN Res("context", n) ELSE h.context,
         page       |-> IF reached("page") THEN Res("page", n) ELSE h.page]

NewLive(h, n) == {r \in {h[Kinds[k]] : k \in 1..4} : r # None /\ r.attempt = n}

\* line 555, 558, 561, 564: the handle is set to None once released
AfterRelease(h, kind) == [h EXCEPT ![kind] = None]

\* line 565: the release of handle `fault` raised and _cleanup caught it
CleanupCaught(h, fault) == fault # "none" /\ h[fault] # None

\* the resources one _cleanup releases, in release order: every set handle
\* before the one whose release raises
Releases(h, fault) ==
    LET stop == IF CleanupCaught(h, fault)
                THEN CHOOSE k \in 1..4 : Kinds[k] = fault ELSE 5
        set == SelectSeq(<<1, 2, 3, 4>>, LAMBDA k : k < stop /\ h[Kinds[k]] # None)
    IN  [i \in 1..Len(set) |-> h[Kinds[set[i]]]]

\* how many of the releases `rs` hit a resource that is no longer live
Stale(rs, lv) == Len(SelectSeq(rs, LAMBDA r : r \notin lv))

\* _cleanup, line 550-566: release page, context, browser, engine in this
\* order; the first release that raises ends the method (the exception is
\* caught and logged), leaving that handle and the later ones set.
RECURSIVE CleanupFrom(_, _, _, _)
CleanupFrom(k, h, lv, fault) ==
    IF k > 4 THEN [handles |-> h, live |-> lv]
    ELSE LET kind == Kinds[k]
         IN  IF h[kind] = None THEN CleanupFrom(k + 1, h, lv, fault)
             ELSE IF fault = kind THEN [handles |-> h, live |-> lv]
             ELSE CleanupFrom(k + 1, AfterRelease(h, kind), lv \ {h[kind]}, fault)

Cleanup(h, lv, fault) == CleanupFrom(1, h, lv, fault)

\* the creation attempt the loop of get_driver is at
ThisAttempt == d_hist.earlier + attempt

\* an attempt starts: the optional delay, then the creation is tried
AttemptEvents(a) == IF SleepsBefore(a) THEN <<"sleep", "attempt">> ELSE <<"attempt">>

InAttempt == d_pc = "in_get_driver" /\ LoopRuns(attempt, max_retries)

\* line 512-529: the attempt succeeds, get_driver returns the page
AttemptSucceeds ==
    /\ InAttempt
    /\ "none" \in FailSteps
    /\ handles' = Created(handles, ThisAttempt, "none")
    /\ live' = live \cup NewLive(handles', ThisAttempt)
    /\ attempts_made' = attempts_made + 1
    /\ sleeps' = sleeps + (IF SleepsBefore(attempt) THEN 1 ELSE 0)
    /\ d_log' = d_log \o AttemptEvents(attempt)
    /\ d_result' = Returned(handles'.page)
    /\ d_pc' = "ready"
    /\ UNCHANGED <<remote, remote_url, max_retries, attempt, last_exception, d_hist>>
    /\ UNCHANGED <<lvars, fvars, ext>>

\* line 357-360 / 434-437 and 531-545: the attempt fails at `failStep`;
\* _cleanup runs in the creator's except and again in get_driver's except
\* (c1, c2: the release that raises in each); then retry or re-raise.
AttemptFails ==
    /\ InAttempt
    /\ \E failStep \in FailSteps \ {"none"}, c1 \in ReleaseFaults, c2 \in ReleaseFaults :
          LET n == ThisAttempt
              made == Created(handles, n, failStep)
              first == Cleanup(made, live \cup NewLive(made, n), c1)
              second == Cleanup(first.handles, first.live, c2)
              exc == [kind |-> "exception", attempt |-> attempt, step |-> failStep]
          IN  /\ handles' = second.handles
              /\ live' = second.live
              /\ d_hist' = [d_hist EXCEPT
                     !.faults = @ \/ CleanupCaught(made, c1)
                                  \/ CleanupCaught(first.handles, c2),
                     !.double = @ + Stale(Releases(made, c1), live \cup NewLive(made, n))
                                  + Stale(Releases(first.handles, c2), first.live)]
              /\ last_exception' = exc
              /\ IF IsLastAttempt(attempt, max_retries)
                 THEN /\ d_pc' = "raised"
                      /\ d_result' = Raised("creation", exc)
                      /\ attempt' = attempt
                 ELSE /\ d_pc' = "in_get_driver"
                      /\ d_result' = d_result
                      /\ attempt' = attempt + 1
    /\ attempts_made' = attempts_made + 1
    /\ sleeps' = sleeps + (IF SleepsBefore(attempt) THEN 1 ELSE 0)
    /\ d_log' = d_log \o AttemptEvents(attempt)
    /\ UNCHANGED <<remote, remote_url, max_retries>>
    /\ UNCHANGED <<lvars, fvars, ext>>

\* line 547-548: the loop ended without returning or re-raising
LoopExhausted ==
    /\ d_pc = "in_get_driver"
    /\ ~LoopRuns(attempt, max_retries)
    /\ d_result' = IF last_exception # None THEN Raised("creation", last_exception)
                   ELSE Raised("Exception", "Driver creation failed")
    /\ d_pc' = "raised"
    /\ UNCHANGED <<remote, remote_url, max_retries, attempt, handles, live,
                   attempts_made, sleeps, d_log, last_exception, d_hist>>
    /\ UNCHANGED <<lvars, fvars, ext>>

get_driver_attempt ==
    \/ AttemptSucceeds
    \/ AttemptFails
    \/ LoopExhausted

\* quit_driver, line 568-580: one _cleanup, whose own errors are swallowed
Quit(fault) ==
    /\ d_pc \in {"idle", "ready", "raised", "closed"}
    /\ d_hist.quits < MaxQuits
    /\ handles' = Cleanup(handles, live, fault).handles
    /\ live' = Cleanup(handles, live, fault).live
    /\ d_hist' = [earlier |-> d_hist.earlier,
                  quits |-> d_hist.quits + 1,
                  released |-> d_hist.released + Len(Releases(handles, fault)),
                  faults |-> d_hist.faults \/ CleanupCaught(handles, fault),
                  double |-> d_hist.double + Stale(Releases(handles, fault), live),
                  quit |-> "returned"]
    /\ d_pc' = IF d_pc = "ready" THEN "closed" ELSE d_pc
    /\ UNCHANGED <<remote, remote_url, max_retries, attempt, attempts_made,
                   sleeps, d_log, last_exception, d_result>>

\* a test that drives the factory directly (tests/test_core_demo.py)
DriverFactoryInit ==
    \E ra \in RemoteArgs, ua \in UrlArgs, p \in Profiles, c \in Configs :
        Construct(ra, ua, p, c) /\ UNCHANGED <<lvars, fvars, ext>>

NotGiven == [given |-> FALSE, n |-> 0]
Given(n) == [given |-> TRUE, n |-> n]

get_driver ==
    \E arg \in {NotGiven} \cup {Given(n) : n \in -1..MaxRetries},
       configured \in {NotGiven} \cup {Given(n) : n \in 0..MaxRetries} :
        /\ arg.given => ~configured.given
        /\ EnterGetDriver(arg, configured)
        /\ UNCHANGED <<lvars, fvars, ext>>

quit_driver == \E fault \in ReleaseFaults : Quit(fault) /\ UNCHANGED <<lvars, fvars, ext>>


\* ======================================================================
\*  The driver fixtures              core/conftest.py, core/base_test.py
\* ======================================================================
Fixtures == {"core_conftest", "base_test"}

FIdle ==
    /\ fixture = "core_conftest"
    /\ f_pc = "off"
    /\ factory = FALSE
    /\ page_instance = None
    /\ outcome = "none"
    /\ f_creates = 0
    /\ f_quits = 0
    /\ f_raised = FALSE
    /\ f_teardown = <<>>
    /\ f_escaped = "none"

FInit ==
    /\ fixture \in Fixtures
    /\ f_pc = "setup"
    /\ factory = FALSE
    /\ page_instance = None
    /\ outcome = "none"
    /\ f_creates = 0
    /\ f_quits = 0
    /\ f_raised = FALSE
    /\ f_teardown = <<>>
    /\ f_escaped = "none"

\* conftest.py line 186: factory = DriverFactory(browser_profile=..., remote=False);
\* the constructor reads the framework configuration and may raise.
ConftestConstruct ==
    /\ f_pc = "setup"
    /\ fixture = "core_conftest"
    /\ \/ /\ \E p \in Profiles, c \in Configs : Construct("False", "None", p, c)
          /\ factory' = TRUE
          /\ f_pc' = "constructed"
          /\ outcome' = outcome
       \/ /\ UNCHANGED dvars
          /\ factory' = FALSE
          /\ f_pc' = "except"
          /\ outcome' = "setup_error"
    /\ UNCHANGED <<fixture, page_instance, f_creates, f_quits, f_raised, f_teardown, f_escaped, lvars, ext>>

\* base_test.py line 79: DriverFactory(browser_name=..., remote=...); __init__
\* (driver_factory.py line 105-110) has no browser_name parameter, so the
\* call raises TypeError and `factory` stays None.
BaseTestConstruct ==
    /\ f_pc = "setup"
    /\ fixture = "base_test"
    /\ factory' = FALSE
    /\ f_pc' = "except"
    /\ outcome' = "setup_error"
    /\ UNCHANGED <<fixture, page_instance, f_creates, f_quits, f_raised, f_teardown, f_escaped, lvars, dvars, ext>>

\* conftest.py line 187: page_instance = factory.get_driver()
FixtureGetDriver ==
    /\ f_pc = "constructed"
    /\ \E configured \in {NotGiven} \cup {Given(n) : n \in 0..MaxRetries} :
          EnterGetDriver(NotGiven, configured)
    /\ f_creates' = f_creates + 1
    /\ f_pc' = "get_driver"
    /\ UNCHANGED <<fixture, factory, page_instance, outcome, f_quits, f_raised, f_teardown, f_escaped, lvars, ext>>

\* conftest.py line 190: yield page_instance
FixtureYield ==
    /\ f_pc = "get_driver"
    /\ d_pc = "ready"
    /\ page_instance' = d_result.value
    /\ f_pc' = "test"
    /\ UNCHANGED <<fixture, factory, outcome, f_creates, f_quits, f_raised, f_teardown, f_escaped, lvars, dvars, ext>>

\* get_driver raised: control enters the except block
FixtureSetupFailed ==
    /\ f_pc = "get_driver"
    /\ d_pc = "raised"
    /\ outcome' = "setup_error"
    /\ f_pc' = "except"
    /\ UNCHANGED <<fixture, factory, page_instance, f_creates, f_quits, f_raised, f_teardown, f_escaped, lvars, dvars, ext>>

\* the test body runs; pytest resumes the generator afterwards whatever the
\* outcome (a failing test is not thrown into the fixture)
TestRuns ==
    /\ f_pc = "test"
    /\ outcome' \in {"passed", "failed"}
    /\ f_pc' = "finally"
    /\ UNCHANGED <<fixture, factory, page_instance, f_creates, f_quits, f_raised, f_teardown, f_escaped, lvars, dvars, ext>>

\* conftest.py line 259-260: the capture is tried whenever a page exists;
\* base_test.py line 161-165: when the test's call report says failed
CaptureAttempted ==
    IF fixture = "core_conftest" THEN page_instance # None ELSE outcome = "failed"

\* mutant: the handler around a teardown step lets the error through
OnTeardownError_Propagates(step) == "raised"

\* what the handler around a teardown step does with an error: it logs it.
\* screenshot: conftest.py line 261-262, base_test.py line 166-167;
\* quit: driver_factory.py line 565-566 (inside _cleanup)
OnTeardownError(step) == "logged"

TeardownEntry(step, raised) ==
    IF raised THEN <<[step |-> step, handled |-> OnTeardownError(step)]>> ELSE <<>>

\* conftest.py line 192-199 / base_test.py line 91-99: quit, then re-raise
FixtureExcept ==
    /\ f_pc = "except"
    /\ IF factory
       THEN \E fault \in ReleaseFaults :
               /\ Quit(fault)
               /\ f_teardown' = f_teardown \o
                     TeardownEntry("except_quit", CleanupCaught(handles, fault))
               /\ f_quits' = f_quits + 1
       ELSE UNCHANGED <<dvars, f_quits, f_teardown>>
    /\ f_raised' = TRUE
    /\ f_pc' = "finally"
    /\ UNCHANGED <<fixture, factory, page_instance, outcome, f_creates, f_escaped, lvars, ext>>

\* conftest.py line 201-208 / base_test.py line 101-103, 142-177: the
\* failure screenshot, then quit_driver; `shot`: whether the capture raises,
\* `fault`: the release that raises inside quit_driver. An error that a
\* handler lets through ends the block and leaves the fixture.
FixtureFinally ==
    /\ f_pc = "finally"
    /\ \E shot \in {"none", "raise"}, fault \in ReleaseFaults :
          LET shotErr == shot = "raise"
              shotEntry == TeardownEntry("screenshot", shotErr)
              shotOut == shotEntry # <<>> /\ shotEntry[1].handled = "raised"
              quitRuns == factory /\ ~shotOut
              quitEntry == TeardownEntry("quit", quitRuns /\ CleanupCaught(handles, fault))
              quitOut == quitEntry # <<>> /\ quitEntry[1].handled = "raised"
          IN  /\ shotErr => CaptureAttempted
              /\ ~quitRuns => fault = "none"
              /\ IF quitRuns
                 THEN Quit(fault) /\ f_quits' = f_quits + 1
                 ELSE UNCHANGED <<dvars, f_quits>>
              /\ f_teardown' = f_teardown \o shotEntry \o quitEntry
              /\ f_escaped' = IF shotOut \/ quitOut THEN "teardown"
                              ELSE IF f_raised THEN "setup" ELSE "none"
    /\ f_pc' = "finished"
    /\ UNCHANGED <<fixture, factory, page_instance, outcome, f_creates, f_raised, lvars, ext>>

driver ==
    \/ ConftestConstruct
    \/ BaseTestConstruct
    \/ FixtureGetDriver
    \/ FixtureYield
    \/ FixtureSetupFailed
    \/ TestRuns
    \/ FixtureExcept
    \/ FixtureFinally

\* ======================================================================
\*  Reporting                 reporting/manager.py, reporting/allure_reporter.py
\* ======================================================================
MaxBackends == 3

ReporterTypes == {"allure", "Allure", "extent"}
\* reporter_type.lower(), line 55
LowerType(t) == IF t = "Allure" THEN "allure" ELSE t
\* line 58: the only implemented backend
SupportedTypes == {"allure"}
\* the n-th AllureReporter object constructed in this process
Backend(n) == [kind |-> "AllureReporter", id |-> n]
NoOp == [op |-> "none", arg |-> "", lib |-> "ok", done |-> "False"]
ROp(o, a, l, d) == [op |-> o, arg |-> a, lib |-> l, done |-> d]

RIdle ==
    /\ r_instance = None
    /\ r_type = "None"
    /\ r_created = 0
    /\ r_last = NoOp
    /\ r_result = None

\* mutant: init looks at the recorded type instead of the instance
AlreadySet_TypeRecorded(inst) == r_type # "None"

\* mutant: init never sees an existing backend
AlreadySet_Never(inst) == FALSE

\* manager.py line 48: if cls._instance is not None
AlreadySet(inst) == inst # None

\* ReportingManager.init(reporter_type), line 30-68; `import`: whether
\* AllureReporter() finds the allure package (allure_reporter.py line 25-32)
init ==
    \E t \in ReporterTypes, import \in {"ok", "ImportError"} :
        /\ r_last' = ROp("init", t, import, "False")
        /\ IF AlreadySet(r_instance)
           THEN /\ import = "ok"
                /\ r_result' = Returned("None")
                /\ UNCHANGED <<r_instance, r_type, r_created>>
           ELSE /\ r_type' = LowerType(t)
                /\ IF LowerType(t) \notin SupportedTypes
                   THEN /\ import = "ok"
                        /\ r_result' = Raised("ValueError", "Unsupported reporter type: " \o t)
                        /\ UNCHANGED <<r_instance, r_created>>
                   ELSE IF import = "ok"
                   THEN /\ r_created < MaxBackends
                        /\ r_created' = r_created + 1
                        /\ r_instance' = Backend(r_created + 1)
                        /\ r_result' = Returned("None")
                   ELSE /\ r_result' = Raised("ImportError", "allure-pytest package not found")
                        /\ UNCHANGED <<r_instance, r_created>>
        /\ UNCHANGED <<core, cvars, uvars, pvars, tvars>>

\* ReportingManager.reporter(), line 70-90
reporter ==
    /\ r_last' = ROp("reporter", "", "ok", "False")
    /\ r_result' = IF r_instance = None
                   THEN Raised("RuntimeError", "ReportingManager not initialized")
                   ELSE Returned(r_instance)
    /\ UNCHANGED <<r_instance, r_type, r_created>>
    /\ UNCHANGED <<core, cvars, uvars, pvars, tvars>>

\* ReportingManager.reset(), line 92-102
reset ==
    /\ r_last' = ROp("reset", "", "ok", "False")
    /\ r_instance' = None
    /\ r_type' = "None"
    /\ r_result' = Returned("None")
    /\ UNCHANGED r_created
    /\ UNCHANGED <<core, cvars, uvars, pvars, tvars>>

\* ReportingManager.is_initialized(), line 104-112
is_initialized ==
    /\ r_last' = ROp("is_initialized", "", "ok", "False")
    /\ r_result' = Returned(IF r_instance # None THEN "True" ELSE "False")
    /\ UNCHANGED <<r_instance, r_type, r_created>>
    /\ UNCHANGED <<core, cvars, uvars, pvars, tvars>>

BackendOps == {"log_step", "attach_screenshot", "attach_text", "attach_exception"}

\* the operations of AllureReporter whose body is wrapped in
\* try / except Exception: pass (allure_reporter.py line 52-66, 76-83, 93-101);
\* log_step (line 41-42) has no handler
Swallows(o) == o \in {"attach_screenshot", "attach_text", "attach_exception"}

\* line 54-55: attach_screenshot returns before any library call when the
\* file does not exist
CallsLibrary(o, arg) == ~(o = "attach_screenshot" /\ arg = "missing")

\* how a backend operation ends when the allure library answers `lib`
BackendOutcome(o, arg, lib) ==
    IF CallsLibrary(o, arg) /\ lib = "raise" /\ ~Swallows(o)
    THEN Raised("AllureError", "library")
    ELSE Returned("None")

\* whether the library call was made and completed
LibraryDone(o, arg, lib) ==
    IF CallsLibrary(o, arg) /\ lib = "ok" THEN "True" ELSE "False"

BackendArgs(o) == IF o = "attach_screenshot" THEN {"exists", "missing"} ELSE {"text"}

\* ReportingManager.reporter().<op>(...): an operation of the active backend,
\* allure_reporter.py line 34-101
AllureReporterOp ==
    /\ r_instance # None
    /\ \E o \in BackendOps, lib \in {"ok", "raise"} : \E arg \in BackendArgs(o) :
          /\ ~CallsLibrary(o, arg) => lib = "ok"
          /\ r_last' = ROp(o, arg, lib, LibraryDone(o, arg, lib))
          /\ r_result' = BackendOutcome(o, arg, lib)
    /\ UNCHANGED <<r_instance, r_type, r_created>>
    /\ UNCHANGED <<core, cvars, uvars, pvars, tvars>>

\* a facade method of the manager, line 124-128 / 138-144: try, call the
\* backend when initialized, except Exception: log at debug level
FacadeOutcome(backendOutcome) == Returned("None")

\* ReportingManager.log_info(message), line 114-128
log_info ==
    /\ \E lib \in {"ok", "raise"} :
          /\ r_instance = None => lib = "ok"
          /\ r_last' = ROp("log_info", "text", lib,
                           IF r_instance # None THEN LibraryDone("log_step", "text", lib)
                           ELSE "False")
          /\ r_result' = FacadeOutcome(BackendOutcome("log_step", "text", lib))
    /\ UNCHANGED <<r_instance, r_type, r_created>>
    /\ UNCHANGED <<core, cvars, uvars, pvars, tvars>>

\* ReportingManager.attach_remote_capabilities(capabilities), line 130-144
attach_remote_capabilities ==
    /\ \E lib \in {"ok", "raise"} :
          /\ r_instance = None => lib = "ok"
          /\ r_last' = ROp("attach_remote_capabilities", "text", lib,
                           IF r_instance # None THEN LibraryDone("attach_text", "text", lib)
                           ELSE "False")
          /\ r_result' = FacadeOutcome(BackendOutcome("attach_text", "text", lib))
    /\ UNCHANGED <<r_instance, r_type, r_created>>
    /\ UNCHANGED <<core, cvars, uvars, pvars, tvars>>

\* ======================================================================
\*  ConfigLoader                                      config/config_loader.py
\* ======================================================================
MaxKeyLen == 5
MaxProfiles == 2

\* the configuration names used by the framework ("<name>.yaml")
Names == {"config", "browsers"}

\* YAML values: a scalar, None, a mapping (items in document order, keys
\* distinct) or a list
Scalar(v) == [kind |-> "scalar", v |-> v]
Item(k, v) == [k |-> k, v |-> v]
Dict(items) == [kind |-> "dict", items |-> items]
List(items) == [kind |-> "list", items |-> items]

\* isinstance(value, dict)
IsDict(x) == x.kind = "dict"
\* k in d
Has(d, k) == \E i \in 1..Len(d.items) : d.items[i].k = k
\* d[k]
At(d, k) == d.items[CHOOSE i \in 1..Len(d.items) : d.items[i].k = k].v

\* d[k] = v: an existing key keeps its position, a new key goes last
SetItem(d, k, v) ==
    IF Has(d, k)
    THEN Dict([i \in 1..Len(d.items) |->
                  IF d.items[i].k = k THEN Item(k, v) ELSE d.items[i]])
    ELSE Dict(Append(d.items, Item(k, v)))

\* d.update(other), other a mapping
RECURSIVE UpdateFrom(_, _, _)
UpdateFrom(d, other, i) ==
    IF i > Len(other.items) THEN d
    ELSE UpdateFrom(SetItem(d, other.items[i].k, other.items[i].v), other, i + 1)

Update(d, other) == UpdateFrom(d, other, 1)

\* a file on disk: absent, not parseable, or a YAML document (None: empty)
Missing == [kind |-> "missing"]
Invalid == [kind |-> "invalid"]
Yaml(doc) == [kind |-> "yaml", doc |-> doc]

\* _load_yaml_file, line 42-72
LoadYamlFile(content) ==
    IF content.kind = "missing"
    THEN Raised("FileNotFoundError", "Configuration file not found")
    ELSE IF content.kind = "invalid"
    THEN Raised("YAMLError", "Error parsing YAML file")
    ELSE Returned(IF content.doc = None THEN Dict(<<>>) ELSE content.doc)

\* mutant: the loaded configuration is returned but never cached
Store_Skipped(cache, name, v) == cache

\* self._config_cache[name] = v
Store(cache, name, v) ==
    [n \in DOMAIN cache \cup {name} |-> IF n = name THEN v ELSE cache[n]]

\* mutant: reload_config empties the whole cache
Drop_All(cache, name) == [n \in {} |-> None]

\* del self._config_cache[name], when present
Drop(cache, name) == [n \in DOMAIN cache \ {name} |-> cache[n]]
EmptyCache == [n \in {} |-> None]

\* mutant: the cache is never consulted
CacheHit_Never(cache, name) == FALSE

\* line 86: if config_name in self._config_cache
CacheHit(cache, name) == name \in DOMAIN cache

\* mutant: a failed load caches an empty configuration for the name
OnLoadRaised_CachesEmpty(cache, name) == Store(cache, name, Dict(<<>>))

\* line 92: _load_yaml_file raised, the assignment of line 95 is never
\* reached and the exception leaves load_config
OnLoadRaised(cache, name) == cache

\* load_config(name), line 74-98: the cache after the call, how the call
\* ended, and the number of times the file was opened
LoadConfig(cache, files, name) ==
    IF CacheHit(cache, name)
    THEN [cache |-> cache, result |-> Returned(cache[name]), reads |-> 0]
    ELSE LET r == LoadYamlFile(files[name])
         IN  IF r.kind = "raise"
             THEN [cache |-> OnLoadRaised(cache, name), result |-> r, reads |-> 1]
             ELSE [cache |-> Store(cache, name, r.value), result |-> r, reads |-> 1]

NoKey == <<>>
NoCall == [key |-> NoKey, name |-> "config", default |-> None]
COp(o, name, key, default, reads) ==
    [op |-> o, name |-> name, key |-> key, default |-> default, reads |-> reads]

CIdle ==
    /\ c_files = [n \in Names |-> Missing]
    /\ c_cache = EmptyCache
    /\ c_call = NoCall
    /\ c_last = COp("none", "config", NoKey, None, 0)
    /\ c_result = None

\* load_config(name), line 74-98
load_config ==
    /\ \E name \in Names :
          LET r == LoadConfig(c_cache, c_files, name)
          IN  /\ c_cache' = r.cache
              /\ c_result' = r.result
              /\ c_last' = COp("load_config", name, NoKey, None, r.reads)
    /\ UNCHANGED <<c_files, c_call>>
    /\ UNCHANGED <<core, rvars, uvars, pvars, tvars>>

\* get_all(name), line 154-164
get_all ==
    /\ \E name \in Names :
          LET r == LoadConfig(c_cache, c_files, name)
          IN  /\ c_cache' = r.cache
              /\ c_result' = r.result
              /\ c_last' = COp("get_all", name, NoKey, None, r.reads)
    /\ UNCHANGED <<c_files, c_call>>
    /\ UNCHANGED <<core, rvars, uvars, pvars, tvars>>

\* reload_config(name), line 166-180
reload_config ==
    /\ \E name \in Names :
          LET r == LoadConfig(Drop(c_cache, name), c_files, name)
          IN  /\ c_cache' = r.cache
              /\ c_result' = r.result
              /\ c_last' = COp("reload_config", name, NoKey, None, r.reads)
    /\ UNCHANGED <<c_files, c_call>>
    /\ UNCHANGED <<core, rvars, uvars, pvars, tvars>>

\* clear_cache(), line 182-185
clear_cache ==
    /\ c_cache' = EmptyCache
    /\ c_result' = Returned(None)
    /\ c_last' = COp("clear_cache", "config", NoKey, None, 0)
    /\ UNCHANGED <<c_files, c_call>>
    /\ UNCHANGED <<core, rvars, uvars, pvars, tvars>>

\* the environment: a configuration file is created, edited or removed
CacheDocs == {Dict(<<>>), Dict(<<Item("a", Scalar("v"))>>)}
CacheFiles == {Missing, Invalid, Yaml(None)} \cup {Yaml(d) : d \in CacheDocs}

WriteFile ==
    /\ \E name \in Names, content \in CacheFiles :
          /\ content # c_files[name]
          /\ c_files' = [c_files EXCEPT ![name] = content]
          /\ c_last' = COp("write_file", name, NoKey, None, 0)
    /\ c_result' = None
    /\ UNCHANGED <<c_cache, c_call>>
    /\ UNCHANGED <<core, rvars, uvars, pvars, tvars>>

\* ---- get(key, config_name, default), line 100-152
\* a key is a string, modelled by its characters
Chars == {"a", "b", "."}
KeyStrings == SeqsUpTo(Chars, MaxKeyLen)
Defaults == {None, Scalar("dflt")}

\* the string made of the characters cs
RECURSIVE Join(_)
Join(cs) == IF cs = <<>> THEN "" ELSE Head(cs) \o Join(Tail(cs))

\* '.' in key
HasDot(key) == \E i \in 1..Len(key) : key[i] = "."

\* key.split('.')
RECURSIVE Split(_)
Split(key) ==
    IF ~HasDot(key) THEN <<Join(key)>>
    ELSE LET i == CHOOSE i \in 1..Len(key) :
                      key[i] = "." /\ \A j \in 1..(i - 1) : key[j] # "."
         IN  <<Join(SubSeq(key, 1, i - 1))>> \o Split(SubSeq(key, i + 1, Len(key)))

\* mutant: a missing segment yields None instead of the caller's default
OnMissingSegment_ReturnsNone(default) == Returned(None)

\* line 130-135: a segment is absent or the value is not a mapping
OnMissingSegment(default) == Returned(default)

\* line 126-136: the loop over the segments
RECURSIVE Walk(_, _, _)
Walk(value, segs, default) ==
    IF segs = <<>> THEN Returned(value)
    ELSE IF IsDict(value) /\ Has(value, Head(segs))
    THEN Walk(At(value, Head(segs)), Tail(segs), default)
    ELSE OnMissingSegment(default)

\* line 120-152 after load_config ended as `loaded`; an exception of
\* load_config or of config_data.get (config_data not a mapping) is caught
\* at line 147 and the default returned
GetValue(loaded, key, default) ==
    IF loaded.kind = "raise" THEN Returned(default)
    ELSE IF HasDot(key) THEN Walk(loaded.value, Split(key), default)
    ELSE IF ~IsDict(loaded.value) THEN Returned(default)
    ELSE IF Has(loaded.value, Join(key)) THEN Returned(At(loaded.value, Join(key)))
    ELSE Returned(default)

\* the call get(c_call.key, c_call.name, c_call.default)
get ==
    /\ LET r == LoadConfig(c_cache, c_files, c_call.name)
       IN  /\ c_cache' = r.cache
           /\ c_result' = GetValue(r.result, c_call.key, c_call.default)
           /\ c_last' = COp("get", c_call.name, c_call.key, c_call.default, r.reads)
    /\ UNCHANGED <<c_files, c_call>>
    /\ UNCHANGED <<core, rvars, uvars, pvars, tvars>>

\* the documents get is exercised on: mappings over the keys a and b nested
\* up to three levels, with scalars, None and mappings at every level
KeyNames == <<"a", "b">>
ItemSeqs(V) ==
    {<<>>} \cup {<<Item(KeyNames[1], v)>> : v \in V}
           \cup {<<Item(KeyNames[2], v)>> : v \in V}
           \cup {<<Item(KeyNames[1], v), Item(KeyNames[2], w)>> : v \in V, w \in V}
DictsOver(V) == {Dict(s) : s \in ItemSeqs(V)}
Leaves == {Scalar("v")}
Vals1 == Leaves \cup DictsOver(Leaves)
Vals2 == Leaves \cup DictsOver(Vals1)
Deep == {Dict(<<Item("a", Dict(<<Item("b", d)>>))>>) : d \in DictsOver(Leaves \cup {None})}
GetDocs ==
    Vals2 \cup Deep \cup
    {None, List(<<>>), Dict(<<Item("a", None)>>), Dict(<<Item("a", List(<<>>))>>)}
GetCalls == [key : KeyStrings, name : Names, default : Defaults]

\* ---- get_browser_matrix(), line 231-264
\* type(x).__name__ of a YAML value
TypeName(x) ==
    CASE x.kind = "dict" -> "dict"
      [] x.kind = "list" -> "list"
      [] x.kind = "scalar" -> "str"
      [] x.kind = "None" -> "NoneType"
      [] x.kind = "int" -> "int"
      [] x.kind = "bool" -> "bool"

LengthError(k, n) ==
    Raised("ValueError", "dictionary update sequence element #" \o Str(k)
                         \o " has length " \o Str(n) \o "; 2 is required")

\* d.update(elems[i..]), elems a sequence of key/value pairs: an element
\* is iterated and must yield exactly two objects, the first one hashable;
\* iterating a mapping yields its keys, iterating a string its characters
RECURSIVE UpdatePairs(_, _, _)
UpdatePairs(d, elems, i) ==
    IF i > Len(elems) THEN Returned(d)
    ELSE LET e == elems[i]
         IN  CASE e.kind \in {"None", "int", "bool"} ->
                    Raised("TypeError", "cannot convert dictionary update sequence element #"
                                        \o Str(i - 1) \o " to a sequence")
               [] e.kind = "scalar" ->
                    IF Len(e.v) # 2 THEN LengthError(i - 1, Len(e.v))
                    ELSE UpdatePairs(SetItem(d, SubSeq(e.v, 1, 1), Scalar(SubSeq(e.v, 2, 2))),
                                     elems, i + 1)
               [] e.kind = "dict" ->
                    IF Len(e.items) # 2 THEN LengthError(i - 1, Len(e.items))
                    ELSE UpdatePairs(SetItem(d, e.items[1].k, Scalar(e.items[2].k)),
                                     elems, i + 1)
               [] e.kind = "list" ->
                    IF Len(e.items) # 2 THEN LengthError(i - 1, Len(e.items))
                    ELSE IF e.items[1].kind \in {"dict", "list"}
                    THEN Raised("TypeError", "unhashable type: '" \o TypeName(e.items[1]) \o "'")
                    ELSE UpdatePairs(SetItem(d, e.items[1].v, e.items[2]), elems, i + 1)

\* d.update(x), x any YAML value: a mapping is merged, a list or a string
\* is read as a sequence of key/value pairs, anything else is not iterable
PyUpdate(d, x) ==
    CASE x.kind = "dict" -> Returned(Update(d, x))
      [] x.kind = "list" -> UpdatePairs(d, x.items, 1)
      [] x.kind = "scalar" ->
            IF x.v = "" THEN Returned(d)
            ELSE UpdatePairs(d, [i \in 1..Len(x.v) |-> Scalar(SubSeq(x.v, i, i))], 1)
      [] x.kind \in {"None", "int", "bool"} ->
            Raised("TypeError", "'" \o TypeName(x) \o "' object is not iterable")

\* line 294-295: profile_entry = {"name": profile_name};
\* profile_entry.update(profile_config)
LegacyEntry(item) == PyUpdate(Dict(<<Item("name", Scalar(item.k))>>), item.v)

\* line 292-296: the loop over the mapping's items from the i-th on, the
\* first update that raises ends the call
RECURSIVE LegacyLoop(_, _, _)
LegacyLoop(items, i, matrix) ==
    IF i > Len(items) THEN Returned(List(matrix))
    ELSE LET e == LegacyEntry(items[i])
         IN  IF e.kind = "raise" THEN e
             ELSE LegacyLoop(items, i + 1, Append(matrix, e.value))

\* _get_legacy_browser_matrix, line 266-301
LegacyBrowserMatrix(cfg) ==
    IF ~Has(cfg, "browsers")
    THEN Raised("ValueError", "Invalid browsers configuration: missing both 'matrix' and 'browsers'")
    ELSE LET bp == At(cfg, "browsers")
         IN  IF ~IsDict(bp) \/ Len(bp.items) = 0
             THEN Raised("ValueError", "Invalid legacy browsers configuration")
             ELSE LegacyLoop(bp.items, 1, <<>>)

GetBrowserMatrix(loaded) ==
    IF loaded.kind = "raise" THEN loaded
    ELSE IF ~Has(loaded.value, "matrix") THEN LegacyBrowserMatrix(loaded.value)
    ELSE LET matrix == At(loaded.value, "matrix")
         IN  IF matrix.kind # "list" \/ Len(matrix.items) = 0
             THEN Raised("ValueError", "Browser matrix must be a non-empty list")
             ELSE Returned(matrix)

get_browser_matrix ==
    /\ LET r == LoadConfig(c_cache, c_files, "browsers")
       IN  /\ c_cache' = r.cache
           /\ c_result' = GetBrowserMatrix(r.result)
           /\ c_last' = COp("get_browser_matrix", "browsers", NoKey, None, r.reads)
    /\ UNCHANGED <<c_files, c_call>>
    /\ UNCHANGED <<core, rvars, uvars, pvars, tvars>>

\* ---- get_browser_config(browser_name), line 187-220
\* needle in text, both strings
Substring(needle, text) ==
    \E i \in 1..(Len(text) - Len(needle) + 1) :
        SubSeq(text, i, i + Len(needle) - 1) = needle

\* k in x, k a string and x any YAML value
PyIn(k, x) ==
    CASE x.kind = "dict" -> Returned(Has(x, k))
      [] x.kind = "list" -> Returned(\E i \in 1..Len(x.items) : x.items[i] = Scalar(k))
      [] x.kind = "scalar" -> Returned(Substring(k, x.v))
      [] x.kind \in {"None", "int", "bool"} ->
            Raised("TypeError", "argument of type '" \o TypeName(x) \o "' is not iterable")

\* x[k], k a string that is in x
PyIndex(x, k) ==
    CASE x.kind = "dict" -> Returned(At(x, k))
      [] x.kind = "list" ->
            Raised("TypeError", "list indices must be integers or slices, not str")
      [] x.kind = "scalar" ->
            Raised("TypeError", "string indices must be integers, not 'str'")

\* ", ".join(x.keys())
RECURSIVE JoinKeys(_, _)
JoinKeys(items, i) ==
    IF i > Len(items) THEN ""
    ELSE items[i].k \o (IF i < Len(items) THEN ", " ELSE "") \o JoinKeys(items, i + 1)

Available(x) ==
    IF IsDict(x) THEN Returned(JoinKeys(x.items, 1))
    ELSE Raised("AttributeError", "'" \o TypeName(x) \o "' object has no attribute 'keys'")

\* line 208-220, browser_profiles the value of the browsers section
ProfileNamed(browser_profiles, browser_name) ==
    LET isin == PyIn(browser_name, browser_profiles)
        available == Available(browser_profiles)
    IN  IF isin.kind = "raise" THEN isin
        ELSE IF isin.value THEN PyIndex(browser_profiles, browser_name)
        ELSE IF available.kind = "raise" THEN available
        ELSE Raised("ValueError", "Browser profile '" \o browser_name
                                  \o "' not found. Available: " \o available.value)

\* line 200-220 after load_config ended as `loaded`
GetBrowserConfig(loaded, browser_name) ==
    IF loaded.kind = "raise" THEN loaded
    ELSE LET has == PyIn("browsers", loaded.value)
             section == PyIndex(loaded.value, "browsers")
         IN  IF has.kind = "raise" THEN has
             ELSE IF ~has.value
             THEN Raised("ValueError", "Invalid browsers configuration structure")
             ELSE IF section.kind = "raise" THEN section
             ELSE ProfileNamed(section.value, browser_name)

\* the profile names get_browser_config is asked for
ProfileNames == {"p", "q", "chrome"}

get_browser_config ==
    /\ \E browser_name \in ProfileNames :
          LET r == LoadConfig(c_cache, c_files, "browsers")
          IN  /\ c_cache' = r.cache
              /\ c_result' = GetBrowserConfig(r.result, browser_name)
              /\ c_last' = COp("get_browser_config", "browsers", <<browser_name>>,
                               None, r.reads)
    /\ UNCHANGED <<c_files, c_call>>
    /\ UNCHANGED <<core, rvars, uvars, pvars, tvars>>

\* the browsers.yaml documents get_browser_matrix is exercised on
ProfilePool ==
    { Dict(<<Item("browserName", Scalar("chromium"))>>),
      Dict(<<Item("name", Scalar("p")), Item("browserName", Scalar("firefox"))>>),
      Dict(<<Item("name", Scalar("x")), Item("headless", Scalar("true"))>>) }
LegacyKeys == {"p", "q"}
\* the values of a legacy entry: a profile, or what a hand-written file has
\* in its place (nothing, an empty list, a string, a list of pairs)
LegacyValues ==
    ProfilePool \cup
    { None, List(<<>>), Scalar(""), Scalar("v"),
      List(<<List(<<Scalar("name"), Scalar("z")>>)>>) }
LegacyItems == {Item(k, v) : k \in LegacyKeys, v \in LegacyValues}
LegacyMaps ==
    {Dict(s) : s \in {t \in SeqsUpTo(LegacyItems, MaxProfiles) :
                         \A i, j \in 1..Len(t) : i # j => t[i].k # t[j].k}}
MatrixLists == {List(s) : s \in SeqsUpTo(ProfilePool, MaxProfiles)}
Optional(k, V) == {<<>>} \cup {<<Item(k, v)>> : v \in V}
MatrixDocs ==
    {Dict(m \o b) : m \in Optional("matrix", MatrixLists \cup {Scalar("chrome")}),
                    b \in Optional("browsers", LegacyMaps \cup
                                   {Scalar("chrome"), None, List(<<Scalar("p")>>)})}

\* ======================================================================
\*  The remote endpoint                  core/driver_factory.py, remote mode
\* ======================================================================
\* the arguments of DriverFactory.__init__ and what it reads
UInits == [remoteArg : RemoteArgs, urlArg : UrlArgs, profile : Profiles, config : Configs]

\* a URL is modelled by its parts in order: scheme, ":", "//", netloc, path
Schemes == {"http", "https", "ws", "wss", "HTTPS", "WSS"}
Netlocs == {"moon.example.com:4444", "localhost"}
UrlPaths == {<<>>, <<"/wd/hub">>}
Url(s, n, p) == <<s, ":", "//", n>> \o p
Urls == {Url(s, n, p) : s \in Schemes, n \in Netlocs, p \in UrlPaths}
BrowserTypes == {"chromium", "firefox", "webkit"}

\* str.lower() on the schemes the model draws from
LowerScheme(s) == IF s = "HTTPS" THEN "https" ELSE IF s = "WSS" THEN "wss" ELSE s

\* urllib.parse.urlparse (line 404): the scheme is the text before the
\* first ":", lower-cased; the netloc is what follows "//"
UrlParse(u) ==
    LET colon == CHOOSE i \in 1..Len(u) : u[i] = ":" /\ \A j \in 1..(i - 1) : u[j] # ":"
    IN  [scheme |-> LowerScheme(Join(SubSeq(u, 1, colon - 1))),
         netloc |-> IF Len(u) >= colon + 2 /\ u[colon + 1] = "//"
                    THEN u[colon + 2] ELSE ""]

\* line 405
WsScheme(scheme) == IF scheme = "https" THEN "wss" ELSE "ws"

\* line 404-408, capabilities left out
WsEndpoint(u, browser_type_name) ==
    LET parsed_url == UrlParse(u)
        scheme == WsScheme(parsed_url.scheme)
        host == parsed_url.netloc
    IN  [scheme |-> scheme, host |-> host,
         url |-> scheme \o "://" \o host \o "/playwright/" \o browser_type_name
                 \o "?capabilities="]

UIdle ==
    /\ u_init = [remoteArg |-> "None", urlArg |-> "None",
                 profile |-> [remote |-> "absent", remote_url |-> "None"],
                 config |-> [remote_url |-> "None", grid_url |-> "None"]]
    /\ u_resolved = None
    /\ u_url = Url("http", "localhost", <<>>)
    /\ u_endpoint = None

UInit ==
    /\ u_init \in UInits
    /\ u_resolved = None
    /\ u_url \in Urls
    /\ u_endpoint = None

\* DriverFactory.__init__ line 155-173 applied to the inputs
ResolveEndpoint ==
    /\ u_resolved = None
    /\ u_resolved' = ResolveRemote(u_init.remoteArg, u_init.urlArg,
                                   u_init.profile, u_init.config)
    /\ UNCHANGED <<u_init, u_url, u_endpoint>>
    /\ UNCHANGED <<core, rvars, cvars, pvars, tvars>>

\* _create_remote_driver line 402-408 applied to the endpoint URL
BuildWsEndpoint ==
    /\ u_endpoint = None
    /\ \E b \in BrowserTypes : u_endpoint' = WsEndpoint(u_url, b)
    /\ UNCHANGED <<u_init, u_resolved, u_url>>
    /\ UNCHANGED <<core, rvars, cvars, pvars, tvars>>

\* ======================================================================
\*  Browser profiles and remote capabilities          core/driver_factory.py
\* ======================================================================
\* YAML scalars that are not strings
IntVal(n) == [kind |-> "int", n |-> n]
BoolVal(b) == [kind |-> "bool", b |-> b]

\* d.get(k, default)
Get(d, k, default) == IF Has(d, k) THEN At(d, k) ELSE default

\* truthiness of a profile value
PyTruthy(x) ==
    /\ x # None
    /\ x # Scalar("")
    /\ x # IntVal(0)
    /\ x # BoolVal(FALSE)
    /\ x.kind \in {"dict", "list"} => x.items # <<>>

\* str.lower() on the strings the model draws from
PyLower(text) ==
    CASE text = "Firefox" -> "firefox"
      [] text = "LATEST"  -> "latest"
      [] OTHER            -> text

\* str(x) of a string or of the int the model draws
PyStr(x) == IF x.kind = "int" THEN "120" ELSE x.v

\* the name map of RemoteCapabilitiesMapper._get_browser_name (line 81-89)
\* and of DriverFactory._get_browser_type_name (line 220-228)
NameMap ==
    [chromium |-> "chromium", chrome |-> "chromium", msedge |-> "chromium",
     edge |-> "chromium", firefox |-> "firefox", webkit |-> "webkit",
     safari |-> "webkit"]

\* line 90 / 230: name_map.get(browser_name.lower(), 'chromium')
GetBrowserName(browser_name) ==
    IF PyLower(browser_name) \in DOMAIN NameMap
    THEN NameMap[PyLower(browser_name)] ELSE "chromium"

\* line 40-42: the version is copied unless it is falsy or "latest" in any
\* letter case; .lower() exists on strings only
WithVersion(capabilities, browser_version) ==
    IF ~PyTruthy(browser_version) THEN Returned(capabilities)
    ELSE IF browser_version.kind # "scalar"
    THEN Raised("AttributeError", "'int' object has no attribute 'lower'")
    ELSE IF PyLower(browser_version.v) # "latest"
    THEN Returned(SetItem(capabilities, "browserVersion", Scalar(PyStr(browser_version))))
    ELSE Returned(capabilities)

\* line 45-50
WithViewport(capabilities, viewport) ==
    IF PyTruthy(viewport)
    THEN SetItem(capabilities, "viewport",
                 Dict(<<Item("width", Get(viewport, "width", IntVal(1920))),
                        Item("height", Get(viewport, "height", IntVal(1080)))>>))
    ELSE capabilities

\* line 53-55
WithHeadless(capabilities, headless) ==
    IF headless # None
    THEN SetItem(capabilities, "headless", BoolVal(PyTruthy(headless)))
    ELSE capabilities

\* line 58-60
WithPlatform(capabilities, platform_name) ==
    IF PyTruthy(platform_name)
    THEN SetItem(capabilities, "platformName", platform_name)
    ELSE capabilities

\* line 63-65: capabilities.update(remote_options), the last step
WithRemoteOptions(capabilities, remote_options) ==
    IF PyTruthy(remote_options) THEN Update(capabilities, remote_options)
    ELSE capabilities

\* RemoteCapabilitiesMapper.map_to_remote_capabilities, line 33-68
MapToRemoteCapabilities(browser_profile) ==
    LET named == Dict(<<Item("browserName",
                     Scalar(GetBrowserName(Get(browser_profile, "browserName",
                                               Scalar("chromium")).v)))>>)
        versioned == WithVersion(named, Get(browser_profile, "browserVersion", None))
    IN  IF versioned.kind = "raise" THEN versioned
        ELSE Returned(
               WithRemoteOptions(
                 WithPlatform(
                   WithHeadless(
                     WithViewport(versioned.value, Get(browser_profile, "viewport", None)),
                     Get(browser_profile, "headless", None)),
                   Get(browser_profile, "platformName", None)),
                 Get(browser_profile, "remote_options", Dict(<<>>))))

\* the objects of the test process are kept in a store, so that two names
\* for one dictionary can be told from two equal dictionaries
CallerRef == "caller"
FactoryRef == "factory"

\* mutant: the factory keeps the caller's dictionary itself
CopyProfile_Alias(heap, ref) == [heap |-> heap, ref |-> ref]

\* line 148: browser_profile.copy(), a new dictionary with the same items
CopyProfile(heap, ref) ==
    [heap |-> [r \in DOMAIN heap \cup {FactoryRef} |->
                  IF r = FactoryRef THEN heap[ref] ELSE heap[r]],
     ref |-> FactoryRef]

PIdle ==
    /\ p_heap = [r \in {CallerRef} |-> Dict(<<>>)]
    /\ p_orig = Dict(<<>>)
    /\ p_self = None
    /\ p_pc = "off"
    /\ p_caps = None

\* DriverFactory(browser_profile=<dict>, remote=...), line 146-149, 157-159
ConstructInline ==
    /\ p_pc = "new"
    /\ \E remoteArg \in BOOLEAN :
          LET copied == CopyProfile(p_heap, CallerRef)
          IN  /\ p_heap' = copied.heap
              /\ p_self' = [browser_profile |-> copied.ref,
                            profile_name |-> Get(p_heap[CallerRef], "name",
                                                 Scalar("custom_profile")).v,
                            remote |-> remoteArg]
    /\ p_pc' = "idle"
    /\ UNCHANGED <<p_orig, p_caps>>
    /\ UNCHANGED <<core, rvars, cvars, uvars, tvars>>

\* get_driver in local mode: the profile is read (line 217-232), not written
LocalProfileRead ==
    /\ p_pc = "idle"
    /\ ~p_self.remote
    /\ p_caps' = [kind |-> "local",
                  browser_type |-> GetBrowserName(
                      Get(p_heap[p_self.browser_profile], "browserName",
                          Scalar("chromium")).v)]
    /\ p_pc' = "ready"
    /\ UNCHANGED <<p_heap, p_orig, p_self>>
    /\ UNCHANGED <<core, rvars, cvars, uvars, tvars>>

\* get_driver in remote mode, line 392-395: the capabilities object is built
\* from the factory's profile
RemoteCapabilities ==
    /\ p_pc = "idle"
    /\ p_self.remote
    /\ p_caps' = MapToRemoteCapabilities(p_heap[p_self.browser_profile])
    /\ p_pc' = "ready"
    /\ UNCHANGED <<p_heap, p_orig, p_self>>
    /\ UNCHANGED <<core, rvars, cvars, uvars, tvars>>

\* quit_driver, line 568-580: no profile access at all
ProfileQuit ==
    /\ p_pc \in {"idle", "ready"}
    /\ p_pc' = "closed"
    /\ UNCHANGED <<p_heap, p_orig, p_self, p_caps>>
    /\ UNCHANGED <<core, rvars, cvars, uvars, tvars>>

\* the inline profiles the model draws from
BrowserNames == {"chrome", "Firefox", "safari", "opera"}
BrowserVersions == {Scalar("latest"), Scalar("LATEST"), Scalar("120"), Scalar(""), None, IntVal(120)}
RemoteOptions ==
    { Dict(<<>>),
      Dict(<<Item("enableVNC", BoolVal(TRUE))>>),
      Dict(<<Item("browserName", Scalar("chrome"))>>),
      Dict(<<Item("browserVersion", Scalar("latest"))>>) }
InlineProfiles ==
    {Dict(nm \o bn \o bv \o vp \o hl \o pf \o ro) :
        nm \in Optional("name", {Scalar("p")}),
        bn \in Optional("browserName", {Scalar(b) : b \in BrowserNames}),
        bv \in Optional("browserVersion", BrowserVersions),
        vp \in Optional("viewport", {Dict(<<Item("width", IntVal(1280))>>)}),
        hl \in Optional("headless", {BoolVal(FALSE)}),
        pf \in Optional("platformName", {Scalar("linux")}),
        ro \in Optional("remote_options", RemoteOptions)}

PInit ==
    /\ p_orig \in InlineProfiles
    /\ p_heap = [r \in {CallerRef} |-> p_orig]
    /\ p_self = None
    /\ p_pc = "new"
    /\ p_caps = None

\* ======================================================================
\*  ConfigLoader shared by threads                   config/config_loader.py
\* ======================================================================
\* The loader takes no lock: each statement that touches the cache or the
\* file is one step, and the steps of different threads interleave freely.
MaxThreads == 2
Threads == 1..MaxThreads
ThreadOps == {"load_config", "reload_config", "clear_cache"}
NoThreadCall == [op |-> "none", name |-> "config"]

TIdle ==
    /\ t_pc = [t \in Threads |-> "off"]
    /\ t_op = [t \in Threads |-> NoThreadCall]
    /\ t_data = [t \in Threads |-> None]
    /\ t_result = [t \in Threads |-> None]
    /\ t_stale = {}
    /\ t_written = FALSE

\* a thread calls load_config(name), reload_config(name) or clear_cache()
ThreadCall(t) ==
    /\ t_pc[t] = "idle"
    /\ \E o \in ThreadOps, name \in Names :
          /\ o = "clear_cache" => name = "config"
          /\ t_op' = [t_op EXCEPT ![t] = [op |-> o, name |-> name]]
          /\ t_pc' = [t_pc EXCEPT ![t] = CASE o = "load_config" -> "check"
                                           [] o = "reload_config" -> "reload_check"
                                           [] OTHER -> "clear"]
    /\ UNCHANGED <<t_data, t_result, t_stale, t_written>>
    /\ UNCHANGED <<cvars, core, rvars, uvars, pvars>>

\* line 86: `if config_name in self._config_cache`
ThreadCheck(t) ==
    /\ t_pc[t] = "check"
    /\ t_pc' = [t_pc EXCEPT ![t] = IF CacheHit(c_cache, t_op[t].name)
                                   THEN "hit" ELSE "miss"]
    /\ UNCHANGED <<t_op, t_data, t_result, t_stale, t_written>>
    /\ UNCHANGED <<cvars, core, rvars, uvars, pvars>>

\* line 88: `return self._config_cache[config_name]`; the entry may have
\* been deleted since line 86
ThreadHit(t) ==
    /\ t_pc[t] = "hit"
    /\ t_result' = [t_result EXCEPT ![t] =
                       IF t_op[t].name \in DOMAIN c_cache
                       THEN Returned(c_cache[t_op[t].name])
                       ELSE Raised("KeyError", t_op[t].name)]
    /\ t_pc' = [t_pc EXCEPT ![t] = "done"]
    /\ UNCHANGED <<t_op, t_data, t_stale, t_written>>
    /\ UNCHANGED <<cvars, core, rvars, uvars, pvars>>

\* line 91-92 enters _load_yaml_file; line 58-60: file_path.exists()
ThreadExists(t) ==
    /\ t_pc[t] = "miss"
    /\ IF c_files[t_op[t].name].kind = "missing"
       THEN /\ t_result' = [t_result EXCEPT ![t] = LoadYamlFile(c_files[t_op[t].name])]
            /\ t_pc' = [t_pc EXCEPT ![t] = "done"]
       ELSE /\ t_pc' = [t_pc EXCEPT ![t] = "open"]
            /\ UNCHANGED t_result
    /\ UNCHANGED <<t_op, t_data, t_stale, t_written>>
    /\ UNCHANGED <<cvars, core, rvars, uvars, pvars>>

\* line 63-72: open() and yaml.safe_load; a file removed since line 58
\* makes open() raise FileNotFoundError, re-raised by `except Exception`
OpenAndParse(content) ==
    IF content.kind = "missing"
    THEN Raised("FileNotFoundError", "[Errno 2] No such file or directory")
    ELSE LoadYamlFile(content)

\* line 62-72, then line 92 assigns config_data
ThreadRead(t) ==
    /\ t_pc[t] = "open"
    /\ LET r == OpenAndParse(c_files[t_op[t].name])
       IN  IF r.kind = "raise"
           THEN /\ t_result' = [t_result EXCEPT ![t] = r]
                /\ t_pc' = [t_pc EXCEPT ![t] = "done"]
                /\ UNCHANGED t_data
           ELSE /\ t_data' = [t_data EXCEPT ![t] = r.value]
                /\ t_pc' = [t_pc EXCEPT ![t] = "store"]
                /\ UNCHANGED t_result
    /\ UNCHANGED <<t_op, t_stale, t_written>>
    /\ UNCHANGED <<cvars, core, rvars, uvars, pvars>>

\* mutant: the file is read again when the entry is written
StoredValue_Reread(t) ==
    LET r == LoadYamlFile(c_files[t_op[t].name])
    IN  IF r.kind = "return" THEN r.value ELSE Dict(<<>>)

\* line 95: what is written is the local config_data read at line 92
StoredValue(t) == t_data[t]

\* line 95-98: self._config_cache[config_name] = config_data; return it
ThreadStore(t) ==
    /\ t_pc[t] = "store"
    /\ c_cache' = Store(c_cache, t_op[t].name, StoredValue(t))
    /\ t_result' = [t_result EXCEPT ![t] = Returned(t_data[t])]
    /\ t_pc' = [t_pc EXCEPT ![t] = "done"]
    /\ UNCHANGED <<t_op, t_data, t_stale, t_written>>
    /\ UNCHANGED <<c_files, c_call, c_last, c_result>>
    /\ UNCHANGED <<core, rvars, uvars, pvars>>

\* the threads that have read the file and not yet written the cache
Readers(name) == {u \in Threads : t_pc[u] = "store" /\ (name = "*" \/ t_op[u].name = name)}

\* line 176: `if config_name in self._config_cache`
ThreadReloadCheck(t) ==
    /\ t_pc[t] = "reload_check"
    /\ t_pc' = [t_pc EXCEPT ![t] = IF t_op[t].name \in DOMAIN c_cache
                                   THEN "reload_del" ELSE "check"]
    /\ UNCHANGED <<t_op, t_data, t_result, t_stale, t_written>>
    /\ UNCHANGED <<cvars, core, rvars, uvars, pvars>>

\* line 178: `del self._config_cache[config_name]`, then line 180 enters
\* load_config; the entry may have been removed since line 176
ThreadReloadDel(t) ==
    /\ t_pc[t] = "reload_del"
    /\ IF t_op[t].name \in DOMAIN c_cache
       THEN /\ c_cache' = Drop(c_cache, t_op[t].name)
            /\ t_pc' = [t_pc EXCEPT ![t] = "check"]
            /\ t_stale' = t_stale \cup Readers(t_op[t].name)
            /\ UNCHANGED t_result
       ELSE /\ t_result' = [t_result EXCEPT ![t] = Raised("KeyError", t_op[t].name)]
            /\ t_pc' = [t_pc EXCEPT ![t] = "done"]
            /\ UNCHANGED <<c_cache, t_stale>>
    /\ UNCHANGED <<t_op, t_data, t_written>>
    /\ UNCHANGED <<c_files, c_call, c_last, c_result>>
    /\ UNCHANGED <<core, rvars, uvars, pvars>>

\* line 184: self._config_cache.clear()
ThreadClear(t) ==
    /\ t_pc[t] = "clear"
    /\ c_cache' = EmptyCache
    /\ t_stale' = t_stale \cup Readers("*")
    /\ t_result' = [t_result EXCEPT ![t] = Returned(None)]
    /\ t_pc' = [t_pc EXCEPT ![t] = "done"]
    /\ UNCHANGED <<t_op, t_data, t_written>>
    /\ UNCHANGED <<c_files, c_call, c_last, c_result>>
    /\ UNCHANGED <<core, rvars, uvars, pvars>>

\* the environment: a configuration file is edited while calls are running
ThreadFiles == {Missing, Yaml(Dict(<<>>)), Yaml(Dict(<<Item("a", Scalar("v"))>>))}

FileEdited ==
    /\ ~t_written
    /\ \E name \in Names, content \in ThreadFiles :
          /\ content # c_files[name]
          /\ c_files' = [c_files EXCEPT ![name] = content]
    /\ t_written' = TRUE
    /\ UNCHANGED <<t_pc, t_op, t_data, t_result, t_stale>>
    /\ UNCHANGED <<c_cache, c_call, c_last, c_result>>
    /\ UNCHANGED <<core, rvars, uvars, pvars>>

TInit ==
    /\ t_pc = [t \in Threads |-> "idle"]
    /\ t_op = [t \in Threads |-> NoThreadCall]
    /\ t_data = [t \in Threads |-> None]
    /\ t_result = [t \in Threads |-> None]
    /\ t_stale = {}
    /\ t_written = FALSE

CInitThreads ==
    /\ c_files \in [Names -> ThreadFiles]
    /\ c_cache = EmptyCache
    /\ c_call = NoCall
    /\ c_last = COp("none", "config", NoKey, None, 0)
    /\ c_result = None

ExtIdle == RIdle /\ CIdle /\ UIdle /\ PIdle /\ TIdle

\* ======================================================================
\*  Properties of find_element and the derived operations
\* ======================================================================
Finished == l_pc \in {"returned", "done"}

\* entry i is one find_element sends to the engine
AttemptableEntry(i) ==
    locator_value(locators[i]) # "" /\ locator_type(locators[i]) \in KnownTypes

Indexes == [i \in 1..Len(locators) |-> i]

\* the indexes of the entries with a non-empty value, in list order
NonEmptyIdx == SelectSeq(Indexes, LAMBDA i : locator_value(locators[i]) # "")

\* the indexes of the entries find_element sends to the engine, in list order
AttemptableIdx == SelectSeq(Indexes, AttemptableEntry)

AttemptedIdx == [k \in 1..Len(attempts) |-> attempts[k].idx]

QueryOf(i) == EngineQuery(locator_type(locators[i]), locator_value(locators[i]))

PageCalls == SelectSeq(calls, LAMBDA c : c.api \in QueryApis \cup {"wait_for"})

ReasonOf(o) == IF o = "timeout" THEN TimeoutReason ELSE EngineErrorText

LogCount(kind) == Len(SelectSeq(log, LAMBDA r : r.kind = kind))

\* C1: first success wins. The entries are sent to the engine strictly in
\* list order, none that find_element can attempt is passed over; once an
\* entry is found visible find_element has returned the element located by
\* that entry, and this attempt is the last one ever made: no page call is
\* issued for a later entry.
C1_FirstSuccessWins ==
    /\ \A k \in 1..(Len(attempts) - 1) :
          /\ attempts[k].idx < attempts[k + 1].idx
          /\ attempts[k].outcome # "visible"
    /\ \A k \in 1..(Len(PageCalls) - 1) : PageCalls[k].idx <= PageCalls[k + 1].idx
    /\ l_pc = "loop" =>
          \A i \in 1..(idx - 1) :
              (i <= Len(locators) /\ AttemptableEntry(i)) =>
                  \E k \in 1..Len(attempts) : attempts[k].idx = i
    /\ \A k \in 1..Len(attempts) :
          attempts[k].outcome = "visible" =>
              /\ Finished
              /\ found = Element(attempts[k].idx, QueryOf(attempts[k].idx))
              /\ \A c \in 1..Len(PageCalls) : PageCalls[c].idx <= attempts[k].idx
    /\ found.kind = "element" =>
          /\ attempts # <<>>
          /\ attempts[Len(attempts)] = [idx |-> found.idx, outcome |-> "visible"]

\* C1 witness: the first of two attemptable entries was found visible and
\* returned; the second was never sent to the engine.
C1_Witness ==
    /\ Len(locators) = 2
    /\ AttemptableEntry(1) /\ AttemptableEntry(2)
    /\ Finished
    /\ found.kind = "element" /\ found.idx = 1
    /\ Len(PageCalls) = 2

\* C6 as stated: when no entry resolves, the aggregated failure enumerates
\* every entry with a non-empty value, in list order.
C6_AsStated ==
    (Finished /\ found.kind = "raise" /\ found.exc = "Exception") =>
        AttemptedIdx = NonEmptyIdx

\* C6 amended: when no entry of a non-empty list resolves, find_element
\* raises the aggregated failure, whose message enumerates, in list order and
\* each with its failure reason, every entry that has a non-empty value and
\* a known strategy type (entries of unknown type are skipped unrecorded).
C6_AllFailedDiagnostic ==
    /\ (Finished /\ locators # <<>> /\ \A k \in 1..Len(attempts) : attempts[k].outcome # "visible")
          => (found.kind = "raise" /\ found.exc = "Exception")
    /\ (Finished /\ found.kind = "raise" /\ found.exc = "Exception") =>
          /\ AttemptedIdx = AttemptableIdx
          /\ Len(errors) = Len(attempts)
          /\ \A k \in 1..Len(errors) :
                errors[k] = Upper(locator_type(locators[attempts[k].idx])) \o ": "
                            \o locator_value(locators[attempts[k].idx]) \o " - "
                            \o ReasonOf(attempts[k].outcome)
          /\ found.msg = ErrorSummary(ElementName, Len(locators), errors)
    /\ (Finished /\ locators = <<[type |-> "id", value |-> "v"], [type |-> "CSS", value |-> "v"]>>
          /\ found.kind = "raise"
          /\ \A k \in 1..Len(attempts) : attempts[k].outcome = "timeout") =>
          found.msg = "Element: All 2 locator(s) failed:\n  1. ID: v - Element not visible within timeout\n  2. CSS: v - Element not visible within timeout"

\* C6 witness: two attemptable entries both failed and the error was raised.
C6_Witness ==
    /\ Finished
    /\ found.kind = "raise" /\ found.exc = "Exception"
    /\ Len(errors) = 2
    /\ attempts[1].outcome = "timeout" /\ attempts[2].outcome = "error"

\* C7 as stated: when entry i is the first one found visible, exactly i
\* failure entries are recorded.
C7_AsStated ==
    (Finished /\ found.kind = "element") => Len(errors) = found.idx

\* C7 amended: when entry i is found visible and entries 1..i-1 are not,
\* find_element returns the element located by entry i and has recorded one
\* success and exactly one failure entry for each of the entries 1..i-1 it
\* attempted: i-1 failures when none of them is skipped, never i.
C7_FailuresBeforeSuccess ==
    (Finished /\ found.kind = "element") =>
        LET i == found.idx
            tried == {j \in 1..(i - 1) : AttemptableEntry(j)}
        IN  /\ found = Element(i, QueryOf(i))
            /\ Len(errors) = Cardinality(tried)
            /\ Len(errors) <= i - 1
            /\ (\A j \in 1..(i - 1) : AttemptableEntry(j)) => Len(errors) = i - 1
            /\ LogCount("failed") = Len(errors)
            /\ LogCount("success") = 1
            /\ \E k \in 1..Len(log) : log[k] = [level |-> "info", kind |-> "success", idx |-> i]

\* C7 witness: entry 2 was found visible after entry 1 failed.
C7_Witness ==
    /\ Finished
    /\ found.kind = "element" /\ found.idx = 2
    /\ Len(errors) = 1

\* C8: with an empty locator list find_element raises the empty-list error
\* (ValueError) and no engine call is ever issued.
C8_EmptyListRaisesBeforeEngine ==
    locators = <<>> =>
        /\ calls = <<>>
        /\ attempts = <<>>
        /\ l_pc \in {"call", "returned", "done"}
        /\ Finished => found = Raised("ValueError", "Element: No locators provided")

\* C8 witness: find_element was called with an empty list and has raised.
C8_Witness ==
    /\ locators = <<>>
    /\ op = "find_element"
    /\ l_pc = "returned"
    /\ found.kind = "raise"

\* C9 as stated: is_visible returns true whenever a locator succeeded and
\* false when all failed.
C9_AsStated ==
    (op = "is_visible" /\ l_pc = "done") => result = Returned(found.kind = "element")

\* C9 amended: is_visible never raises. It returns false when find_element
\* raised (all locators failed, or the list is empty); when a locator
\* succeeded it returns the engine's answer to the visibility query on the
\* element found: true if the element is still visible, false if it is not
\* or if that query raises.
C9_IsVisibleNeverRaises ==
    (op = "is_visible" /\ l_pc = "done") =>
        /\ result.kind = "return"
        /\ result.value \in BOOLEAN
        /\ found.kind = "raise" => result.value = FALSE
        /\ found.kind = "element" =>
              /\ calls[Len(calls)].api = "is_visible"
              /\ calls[Len(calls)].idx = found.idx
              /\ result.value = (calls[Len(calls)].arg = "True")

\* C9 witness: every locator failed and is_visible returned False.
C9_Witness ==
    /\ op = "is_visible" /\ l_pc = "done"
    /\ found.kind = "raise" /\ found.exc = "Exception"
    /\ Len(errors) >= 1
    /\ result = Returned(FALSE)

\* ======================================================================
\*  Properties of get_driver and the driver fixtures
\* ======================================================================
\* the events of k + 1 attempts: a delay before every attempt but the first
RECURSIVE ExpectedLog(_)
ExpectedLog(k) ==
    IF k = 0 THEN <<"attempt">> ELSE ExpectedLog(k - 1) \o <<"sleep", "attempt">>

\* C2: retry, success path. When the first k attempts fail and attempt k+1
\* succeeds (k <= max_retries, in particular k = max_retries), get_driver
\* returns the page of a Ready session after exactly k+1 creation attempts
\* and exactly k delays, one before every attempt except the first and none
\* after the last.
C2_RetryThenSuccess ==
    /\ d_pc = "ready" =>
          /\ attempt <= max_retries
          /\ attempts_made = attempt + 1
          /\ sleeps = attempt
          /\ d_log = ExpectedLog(attempt)
          /\ handles.page = Res("page", ThisAttempt)
          /\ d_result = Returned(handles.page)
    /\ (d_pc = "in_get_driver" /\ attempts_made > 0) =>
          /\ sleeps = attempts_made - 1
          /\ d_log = ExpectedLog(attempts_made - 1)

\* C2 witness: max_retries = 2, two failed attempts, the third one succeeded.
C2_Witness ==
    /\ d_pc = "ready"
    /\ max_retries = 2
    /\ attempt = max_retries
    /\ attempts_made = 3
    /\ sleeps = 2

\* C3: retry, failure path. For max_retries = N >= 0, when every attempt
\* fails get_driver makes exactly N+1 attempts and then raises the failure of
\* the final attempt; it returns no session and never makes an N+2-th attempt.
C3_RetryExhausted ==
    max_retries >= 0 =>
        /\ attempts_made <= max_retries + 1
        /\ d_pc = "raised" =>
              /\ attempts_made = max_retries + 1
              /\ sleeps = max_retries
              /\ last_exception # None
              /\ last_exception.attempt = max_retries
              /\ d_result = Raised("creation", last_exception)

\* C3 witness: max_retries = 2, three failed attempts, the error was raised.
C3_Witness ==
    /\ d_pc = "raised"
    /\ max_retries = 2
    /\ attempts_made = 3
    /\ last_exception # None
    /\ last_exception.step = "context"

\* C4 as stated: after every failed attempt, before the next one starts or
\* the terminal error propagates, every resource acquired has been released
\* and every handle cleared, also when a release itself raises.
C4_NoLeakAcrossRetries ==
    (d_pc \in {"in_get_driver", "raised"} /\ attempts_made > 0) =>
        /\ handles = NoHandles
        /\ live = {}

\* C5 as stated: remote mode without a resolvable endpoint URL makes exactly
\* one attempt and no delay, for every max_retries.
C5_RemoteUnconfiguredFailsFast ==
    (remote /\ ~Truthy(remote_url)) =>
        /\ attempts_made <= 1
        /\ sleeps = 0

\* C10 as stated: for every test that requests the driver fixture the
\* session is created exactly once and torn down exactly once, whatever the
\* outcome (passed, failed, setup error): quit_driver is never invoked zero
\* times and never twice. Stated here for the tests whose fixture got as far
\* as calling get_driver, so that a constructor that raises is not counted.
C10_ExactlyOnceLifecycle ==
    (f_pc = "finished" /\ f_creates > 0) => (f_creates = 1 /\ f_quits = 1)

\* C11: a teardown-time error never masks the primary test outcome: every
\* error raised while capturing the failure screenshot or quitting the
\* driver is logged by its handler, and the only exception that can leave
\* the driver fixture is the setup error it re-raises.
C11_TeardownErrorsNeverEscape ==
    /\ \A i \in 1..Len(f_teardown) : f_teardown[i].handled = "logged"
    /\ f_pc = "finished" =>
          /\ f_escaped # "teardown"
          /\ f_escaped = (IF outcome = "setup_error" THEN "setup" ELSE "none")

\* C11 witness: a failed test whose screenshot capture raised and whose
\* quit_driver met a release error; the fixture ended without raising.
C11_Witness ==
    /\ f_pc = "finished"
    /\ outcome = "failed"
    /\ \E i, j \in 1..Len(f_teardown) :
          f_teardown[i].step = "screenshot" /\ f_teardown[j].step = "quit"
    /\ f_escaped = "none"

\* ======================================================================
\*  Properties of the reporting facade
\* ======================================================================
\* C12 as stated: every operation of the reporting backend (log_step,
\* attach_screenshot, attach_text, attach_exception) returns normally when
\* the reporting library raises.
C12_BackendOpsBestEffort ==
    (r_last.op \in BackendOps /\ r_last.lib = "raise") => r_result.kind = "return"

\* C13 as stated: once a backend is set, the backend instance and its
\* recorded type never change under any manager operation.
C13_AsStated ==
    [][r_instance # None => (r_instance' = r_instance /\ r_type' = r_type)]_vars

\* C13: once a backend is set, the backend instance and its recorded type
\* change only when reset is called, which clears both; every init call made
\* while a backend is set, with any reporter type, is a no-op, and no other
\* manager or backend operation touches them.
C13_BackendFixedUntilReset ==
    [][r_instance # None =>
          /\ r_last'.op # "reset" => (r_instance' = r_instance /\ r_type' = r_type)
          /\ r_last'.op = "reset" => (r_instance' = None /\ r_type' = "None")
          /\ r_last'.op = "init" =>
                (r_created' = r_created /\ r_result'.kind = "return")]_vars

\* C13 witness: init("extent") was called while the allure backend was set
\* and left it in place.
C13_Witness ==
    /\ r_instance = Backend(1)
    /\ r_type = "allure"
    /\ r_last.op = "init"
    /\ r_last.arg = "extent"
    /\ r_result.kind = "return"

\* ======================================================================
\*  Properties of ConfigLoader
\* ======================================================================
Absent == [kind |-> "absent"]

\* the value stored under a path of segments (Absent when a segment is
\* missing or an intermediate value is not a mapping), read from the end of
\* the path
RECURSIVE StoredAt(_, _)
StoredAt(doc, segs) ==
    IF segs = <<>> THEN doc
    ELSE LET parent == StoredAt(doc, SubSeq(segs, 1, Len(segs) - 1))
             last == segs[Len(segs)]
         IN  IF parent.kind = "dict" /\ (\E i \in 1..Len(parent.items) : parent.items[i].k = last)
             THEN At(parent, last)
             ELSE Absent

\* the configuration get worked on (Absent when it could not be loaded)
DocOf(name) == IF name \in DOMAIN c_cache THEN c_cache[name] ELSE Absent

\* C14: get with a dotted key over nested mappings returns the supplied
\* default whenever a segment of the path is absent or an intermediate value
\* is not a mapping, returns the stored value when the whole path is
\* present, and never raises.
C14_DottedGet ==
    (c_last.op = "get" /\ HasDot(c_last.key)) =>
        LET stored == StoredAt(DocOf(c_last.name), Split(c_last.key))
        IN  c_result = Returned(IF stored = Absent THEN c_last.default ELSE stored)

\* C14 witness: get('a.b.a', default='dflt') on {a: {b: {a: v}}} returned v.
C14_Witness ==
    /\ c_last.op = "get"
    /\ c_last.key = <<"a", ".", "b", ".", "a">>
    /\ c_last.default = Scalar("dflt")
    /\ c_result = Returned(Scalar("v"))

LoadOps == {"load_config", "get_all"}

\* C15: the cache is populated lazily and never expires. A load of a name
\* that is not cached reads the file once and, when it succeeds, stores the
\* result; a load of a cached name returns the cached content without
\* reading the file and leaves the cache alone; an entry disappears or
\* changes only through reload_config or clear_cache, whatever happens to
\* the file on disk.
C15_CachedUntilReload ==
    [][LET o == c_last'.op
           n == c_last'.name
       IN  /\ (o \in LoadOps /\ n \in DOMAIN c_cache) =>
                 /\ c_last'.reads = 0
                 /\ c_result' = Returned(c_cache[n])
                 /\ c_cache' = c_cache
           /\ (o \in LoadOps /\ n \notin DOMAIN c_cache) =>
                 /\ c_last'.reads = 1
                 /\ c_result'.kind = "return" =>
                       c_cache' = Store(c_cache, n, c_result'.value)
                 /\ c_result'.kind = "raise" => c_cache' = c_cache
           /\ o \notin {"reload_config", "clear_cache"} =>
                 \A m \in DOMAIN c_cache :
                     m \in DOMAIN c_cache' /\ c_cache'[m] = c_cache[m]]_vars

\* C15 witness: load_config returned the cached content without reading,
\* although the file on disk now holds something else.
C15_Witness ==
    /\ c_last.op = "load_config"
    /\ c_last.reads = 0
    /\ c_result.kind = "return"
    /\ c_files[c_last.name] = Yaml(Dict(<<>>))
    /\ c_result.value = Dict(<<Item("a", Scalar("v"))>>)

\* get_browser_matrix returned a matrix synthesized from the legacy mapping
LegacyReturned ==
    /\ c_last.op = "get_browser_matrix"
    /\ c_result.kind = "return"
    /\ ~Has(DocOf("browsers"), "matrix")

\* C16 as stated: a matrix synthesized from the legacy mapping has one
\* profile per mapping entry, in mapping order, and each profile's name
\* field equals its mapping key, for every profile content.
C16_LegacyNameIsKey ==
    LegacyReturned =>
        LET bp == At(DocOf("browsers"), "browsers").items
            m == c_result.value.items
        IN  /\ Len(m) = Len(bp)
            /\ \A i \in 1..Len(m) : At(m[i], "name") = Scalar(bp[i].k)

\* C17 as stated: every matrix returned by get_browser_matrix is non-empty
\* and its profile names are pairwise distinct.
C17_MatrixNamesDistinct ==
    (c_last.op = "get_browser_matrix" /\ c_result.kind = "return") =>
        LET m == c_result.value.items
        IN  /\ Len(m) > 0
            /\ (\A i \in 1..Len(m) : Has(m[i], "name")) =>
                  \A i, j \in 1..Len(m) : i # j => At(m[i], "name") # At(m[j], "name")

\* ======================================================================
\*  Properties of the derived locator operations
\* ======================================================================
ElementApis == {"click", "clear", "fill", "inner_text", "is_visible"}
ElementCalls == SelectSeq(calls, LAMBDA c : c.api \in ElementApis)
ElementCallApis == [k \in 1..Len(ElementCalls) |-> ElementCalls[k].api]
DerivedDone == l_pc = "done" /\ op # "find_element"

\* C18 as stated: each derived operation performs exactly one engine action
\* on the handle returned by find_element, and none when resolve fails.
C18_AsStated ==
    DerivedDone =>
        Len(ElementCalls) = (IF found.kind = "element" THEN 1 ELSE 0)

\* C18: each derived operation first resolves and then acts on the returned
\* handle only: click_element, get_text and is_visible perform exactly one
\* engine action; type_text performs fill, preceded by clear when
\* clear_first is set (fill is not reached when clear raises). No engine
\* action is performed on any handle before resolve has returned or when
\* resolve fails.
C18_ResolveThenAct ==
    /\ ~DerivedDone => ElementCalls = <<>>
    /\ (DerivedDone /\ found.kind # "element") => ElementCalls = <<>>
    /\ (DerivedDone /\ found.kind = "element") =>
          /\ calls = PageCalls \o ElementCalls
          /\ PageCalls # <<>>
          /\ \A k \in 1..Len(ElementCalls) : ElementCalls[k].idx = found.idx
          /\ ElementCallApis \in
                CASE op = "click_element" -> {<<"click">>}
                  [] op = "get_text" -> {<<"inner_text">>}
                  [] op = "is_visible" -> {<<"is_visible">>}
                  [] op = "type_text" ->
                        IF ~clear_first THEN {<<"fill">>}
                        ELSE IF result.kind = "raise" THEN {<<"clear">>, <<"clear", "fill">>}
                        ELSE {<<"clear", "fill">>}

\* C18 witness: type_text with clear_first on the second locator of the
\* list: clear and fill were both issued on the returned handle.
C18_Witness ==
    /\ DerivedDone
    /\ op = "type_text"
    /\ clear_first
    /\ found.kind = "element"
    /\ found.idx = 2
    /\ ElementCallApis = <<"clear", "fill">>
    /\ result.kind = "return"

\* ======================================================================
\*  Properties of the remote endpoint
\* ======================================================================
\* C19 as stated: the endpoint URL of a remote session is the explicit
\* remote_url override if given, otherwise the profile's remote_url,
\* otherwise the framework configuration's remote_url, then grid_url,
\* whether the remote flag was passed explicitly or taken from the profile.
C19_EndpointPriority ==
    (u_resolved # None /\ u_resolved.remote) =>
        LET want == PyOr(u_init.urlArg,
                         PyOr(u_init.profile.remote_url,
                              PyOr(u_init.config.remote_url, u_init.config.grid_url)))
        IN  IF Truthy(want) THEN u_resolved.remote_url = want
            ELSE ~Truthy(u_resolved.remote_url)

\* C20 as stated: a secure original scheme (https, wss) yields wss and an
\* insecure one (http, ws) yields ws.
C20_SecureToSecure ==
    u_endpoint # None =>
        LET original == LowerScheme(u_url[1])
        IN  u_endpoint.scheme = (IF original \in {"https", "wss"} THEN "wss" ELSE "ws")

\* C22: an entry with an empty value is skipped. No engine call carries its
\* index, no attempt and no failure entry is recorded for it (the failure
\* entries are exactly those of the attempted entries, none of which is
\* empty), the skip is logged once as a warning, and the loop goes on: every
\* later attemptable entry is sent to the engine unless an earlier entry was
\* found visible, and when the engine finds it visible it is the element
\* returned.
C22_EmptyValueSkipped ==
    \A i \in 1..Len(locators) :
        locator_value(locators[i]) = "" =>
            /\ \A c \in 1..Len(calls) : calls[c].idx # i
            /\ \A k \in 1..Len(attempts) : attempts[k].idx # i
            /\ Len(errors) = Len(SelectSeq(attempts, LAMBDA a : a.outcome # "visible"))
            /\ \A k \in 1..Len(log) : log[k].idx = i => log[k].kind = "empty"
            /\ (l_pc = "loop" /\ idx > i) =>
                  Len(SelectSeq(log, LAMBDA r : r.kind = "empty" /\ r.idx = i)) = 1
            /\ Finished =>
                  \A j \in (i + 1)..Len(locators) :
                      (/\ AttemptableEntry(j)
                       /\ \/ found.kind = "raise"
                          \/ found.kind = "element" /\ j <= found.idx) =>
                          \E k \in 1..Len(attempts) : attempts[k].idx = j

\* C22 witness: the first entry has an empty value, the second was sent to
\* the engine, found visible and returned; nothing was recorded for the first.
C22_Witness ==
    /\ Len(locators) = 2
    /\ locator_value(locators[1]) = ""
    /\ Finished
    /\ found.kind = "element" /\ found.idx = 2
    /\ errors = <<>>
    /\ Len(attempts) = 1

\* C30: for a non-empty list whose every entry is skipped (empty value or
\* unknown strategy type) find_element issues no engine call and raises the
\* all-locators-failed error, not the empty-list ValueError; its message
\* states the length of the list in the header and enumerates no attempt.
\* In general the message enumerates one line per entry actually attempted:
\* as many as there are attempts, at most the count stated in the header,
\* and fewer whenever an entry was skipped.
C30_AllSkippedSummary ==
    (Finished /\ locators # <<>> /\ found.kind = "raise") =>
        /\ found.exc = "Exception"
        /\ Len(errors) = Len(attempts)
        /\ Len(attempts) = Len(AttemptableIdx)
        /\ Len(errors) <= Len(locators)
        /\ (\E i \in 1..Len(locators) : ~AttemptableEntry(i)) => Len(errors) < Len(locators)
        /\ AttemptableIdx = <<>> =>
              /\ calls = <<>>
              /\ errors = <<>>
              /\ found.msg = "Element: All " \o Str(Len(locators)) \o " locator(s) failed:"
        /\ (/\ locators = <<[type |-> "id", value |-> ""], [type |-> "css", value |-> "v"]>>
            /\ attempts = <<[idx |-> 2, outcome |-> "timeout"]>>) =>
              found.msg = "Element: All 2 locator(s) failed:\n  1. CSS: v - Element not visible within timeout"

\* C30 witness: a list of two entries, one with an empty value and one of
\* unknown type; both were skipped and the aggregated error was raised with
\* no engine call made.
C30_Witness ==
    /\ locators = <<[type |-> "id", value |-> ""], [type |-> "bogus", value |-> "v"]>>
    /\ Finished
    /\ found = Raised("Exception", "Element: All 2 locator(s) failed:")
    /\ calls = <<>>
    /\ LogCount("empty") = 1 /\ LogCount("unknown") = 1

\* C26: invalidation by name is local. reload_config(name) always reads the
\* file of `name` again; afterwards the entry of `name` holds what was just
\* read (or is absent when the read failed) and every other entry is what it
\* was: none added, removed or changed. clear_cache leaves no entry at all.
C26_ReloadIsLocal ==
    [][LET o == c_last'.op
           n == c_last'.name
       IN  /\ o = "reload_config" =>
                 /\ c_last'.reads = 1
                 /\ DOMAIN c_cache' \ {n} = DOMAIN c_cache \ {n}
                 /\ \A m \in DOMAIN c_cache \ {n} : c_cache'[m] = c_cache[m]
                 /\ c_result' = LoadYamlFile(c_files[n])
                 /\ c_result'.kind = "return" =>
                       (n \in DOMAIN c_cache' /\ c_cache'[n] = c_result'.value)
                 /\ c_result'.kind = "raise" => n \notin DOMAIN c_cache'
           /\ o = "clear_cache" => DOMAIN c_cache' = {}]_vars

\* C26 witness: both configurations were cached, the file of one was edited
\* and that one reloaded: its entry now holds the new content while the
\* other entry is still there.
C26_Witness ==
    /\ c_last.op = "reload_config"
    /\ c_last.name = "config"
    /\ DOMAIN c_cache = {"config", "browsers"}
    /\ c_cache["config"] = Dict(<<Item("a", Scalar("v"))>>)
    /\ c_cache["browsers"] = Dict(<<>>)
    /\ c_files["browsers"] = Yaml(Dict(<<Item("a", Scalar("v"))>>))

\* C27: a failed load leaves the cache unchanged. When load_config(name)
\* raises, the file was read, the cache is exactly what it was before the
\* call and holds no entry for `name`; a load_config(name) that follows reads
\* the file again and returns what the file then holds.
C27_FailedLoadNotCached ==
    [][LET o == c_last'.op
           n == c_last'.name
       IN  /\ (o \in LoadOps /\ c_result'.kind = "raise") =>
                 /\ c_last'.reads = 1
                 /\ c_cache' = c_cache
                 /\ n \notin DOMAIN c_cache'
                 /\ c_result'.exc \in {"FileNotFoundError", "YAMLError"}
           /\ (/\ c_last.op \in LoadOps /\ c_result.kind = "raise"
               /\ o \in LoadOps /\ n = c_last.name) =>
                 /\ c_last'.reads = 1
                 /\ c_result' = LoadYamlFile(c_files[n])]_vars

\* C27 witness: load_config has just raised for a missing file while another
\* configuration was cached: the cache still holds that entry alone.
C27_Witness ==
    /\ c_last.op = "load_config"
    /\ c_last.name = "config"
    /\ c_last.reads = 1
    /\ c_result.kind = "raise" /\ c_result.exc = "FileNotFoundError"
    /\ DOMAIN c_cache = {"browsers"}
    /\ c_cache["browsers"] = Dict(<<Item("a", Scalar("v"))>>)

\* the operation just performed was an init that raised ValueError
InitRejected == r_last.op = "init" /\ r_result.kind = "raise" /\ r_result.exc = "ValueError"

\* C29: a failed init leaves no backend installed. An init that raises
\* ValueError was given an unsupported type, found no backend and installs
\* none; right after it is_initialized() answers False, reporter() raises
\* RuntimeError, and an init with the supported type (its package present)
\* installs a fresh backend and returns normally: the failure does not turn
\* later init calls into no-ops.
C29_FailedInitInstallsNothing ==
    [][/\ (r_last'.op = "init" /\ r_result'.kind = "raise") =>
             /\ r_instance = None
             /\ r_instance' = None
             /\ r_created' = r_created
             /\ r_result'.exc = "ValueError" <=> LowerType(r_last'.arg) # "allure"
       /\ InitRejected =>
             /\ r_last'.op = "is_initialized" => r_result' = Returned("False")
             /\ r_last'.op = "reporter" =>
                   (r_result'.kind = "raise" /\ r_result'.exc = "RuntimeError")
             /\ (r_last'.op = "init" /\ LowerType(r_last'.arg) = "allure" /\ r_last'.lib = "ok") =>
                   /\ r_instance' = Backend(r_created + 1)
                   /\ r_type' = "allure"
                   /\ r_result' = Returned("None")]_vars

\* C29 witness: init("extent") has just raised ValueError: the type was
\* recorded but no backend is installed.
C29_Witness ==
    /\ InitRejected
    /\ r_last.arg = "extent"
    /\ r_type = "extent"
    /\ r_instance = None

\* a quit_driver call made while no release has ever raised leaves every
\* handle cleared and no resource unreleased: it releases exactly the
\* resources still live, none of them twice, and a quit_driver that follows
\* another one finds every handle clear and releases nothing
QuitReleasesAll ==
    /\ handles' = NoHandles
    /\ live' = {}
    /\ d_hist'.quit = "returned"
    /\ d_result' = d_result
    /\ d_hist'.released = d_hist.released + Cardinality(live)
    /\ d_hist'.double = 0
    /\ d_hist.quits >= 1 =>
          /\ d_hist'.released = d_hist.released
          /\ handles = NoHandles
          /\ live = {}

\* C28 as stated: quit_driver is idempotent. In the absence of release
\* errors, after any number of consecutive quit_driver calls (also after a
\* failed get_driver) every handle is cleared, each acquired resource has
\* been released exactly once, and the second and later calls release
\* nothing and raise nothing.
C28_QuitIdempotent ==
    [][(d_hist'.quits = d_hist.quits + 1 /\ ~d_hist'.faults) => QuitReleasesAll]_vars

\* the same for a factory whose earlier get_driver calls, if any, made no
\* creation attempt: the handles quit_driver finds are those of the only
\* call that acquired resources
QuitIdempotentFirstSession ==
    [][(d_hist'.quits = d_hist.quits + 1 /\ ~d_hist'.faults /\ d_hist.earlier = 0)
          => QuitReleasesAll]_vars

CanonicalNames == {Scalar("chromium"), Scalar("firefox"), Scalar("webkit")}

\* the profile the factory reads
FactoryProfile == p_heap[p_self.browser_profile]

\* the profile's version is unset or "latest" in some letter case
VersionLatestOrUnset(profile) ==
    LET v == Get(profile, "browserVersion", None)
    IN  v = None \/ (v.kind = "scalar" /\ PyLower(v.v) = "latest")

\* C21: in the capabilities object built for a remote session, as it is
\* after the remote-only options were merged in, browserName is one of
\* chromium, firefox, webkit, and there is no browserVersion entry when the
\* profile's version is "latest" (any letter case) or unset.
C21_CanonicalCapabilities ==
    (p_caps.kind = "return") =>
        /\ At(p_caps.value, "browserName") \in CanonicalNames
        /\ VersionLatestOrUnset(FactoryProfile) => ~Has(p_caps.value, "browserVersion")

\* the same, for the profiles whose remote_options carry neither key
C21_WithoutOverride ==
    (/\ p_caps.kind = "return"
     /\ LET ro == Get(FactoryProfile, "remote_options", Dict(<<>>))
        IN  ~Has(ro, "browserName") /\ ~Has(ro, "browserVersion")) =>
        /\ At(p_caps.value, "browserName") \in CanonicalNames
        /\ VersionLatestOrUnset(FactoryProfile) => ~Has(p_caps.value, "browserVersion")

\* C25: an inline profile is treated as a value. The factory keeps its own
\* copy of the dictionary it was given (another object with the same items),
\* and through construction, get_driver and quit_driver the caller's
\* dictionary keeps exactly the items it was handed over with.
C25_ProfileIsValueObject ==
    /\ p_heap[CallerRef] = p_orig
    /\ p_pc \in {"idle", "ready", "closed"} =>
          /\ p_self.browser_profile # CallerRef
          /\ p_heap[p_self.browser_profile] = p_orig
          /\ p_self.profile_name = Get(p_orig, "name", Scalar("custom_profile")).v

\* C25 witness: a factory was built from a matrix entry with remote options,
\* get_driver read the profile and quit_driver ran; the entry is unchanged.
C25_Witness ==
    /\ p_pc = "closed"
    /\ p_caps # None
    /\ Has(p_orig, "name")
    /\ PyTruthy(Get(p_orig, "remote_options", None))
    /\ p_heap[CallerRef] = p_orig

AllDone == \A t \in Threads : t_pc[t] = "done"

\* so far the threads have made load_config calls only, on unchanged files
ReadersOnly ==
    /\ \A t \in Threads : t_op[t].op \in {"none", "load_config"}
    /\ ~t_written

\* C23: concurrent readers are safe. While the threads make only
\* load_config calls and the files do not change, whatever the interleaving,
\* every call that has finished delivered what its file parses to (or the
\* file's load error), every cache entry equals the parsed content of its
\* file, and once all calls have finished the cache holds exactly one entry
\* for each name that was loaded, and no other.
C23_ConcurrentReadersSafe ==
    ReadersOnly =>
        /\ \A t \in Threads :
              t_pc[t] = "done" => t_result[t] = LoadYamlFile(c_files[t_op[t].name])
        /\ \A n \in DOMAIN c_cache : Returned(c_cache[n]) = LoadYamlFile(c_files[n])
        /\ AllDone =>
              DOMAIN c_cache = {t_op[t].name : t \in {u \in Threads : t_result[u].kind = "return"}}

\* C23 witness: two load_config("config") calls raced, both missed the
\* cache and read the file, both returned its content and the cache holds
\* the one entry.
C23_Witness ==
    /\ ReadersOnly /\ AllDone
    /\ \A t \in Threads : t_op[t] = [op |-> "load_config", name |-> "config"]
    /\ \A t \in Threads : t_data[t] = Dict(<<Item("a", Scalar("v"))>>)
    /\ \A t \in Threads : t_result[t] = Returned(Dict(<<Item("a", Scalar("v"))>>))
    /\ DOMAIN c_cache = {"config"}
    /\ c_cache["config"] = Dict(<<Item("a", Scalar("v"))>>)

\* C24: invalidation is not ordering-safe against a populating reader. A
\* load_config that has read the file writes what it read into the cache
\* and returns it whatever has happened to the cache in between: when
\* clear_cache or reload_config's delete ran after the read, the write puts
\* the content read before the invalidation back into the cache.
C24_InvalidationCanBeLost ==
    [][\A t \in Threads :
          (t_pc[t] = "store" /\ t_pc'[t] = "done") =>
              /\ t_op[t].name \in DOMAIN c_cache'
              /\ c_cache'[t_op[t].name] = t_data[t]
              /\ t_result'[t] = Returned(t_data[t])
              /\ \A n \in DOMAIN c_cache \ {t_op[t].name} :
                    n \in DOMAIN c_cache' /\ c_cache'[n] = c_cache[n]]_vars

\* C24 witness: a load_config read the file, the file was then edited and
\* clear_cache ran; both calls have finished and the cache holds the content
\* read before the invalidation, not what the file now holds.
C24_Witness ==
    /\ AllDone
    /\ \E t \in t_stale, u \in Threads :
          /\ t_op[t].op = "load_config"
          /\ t_op[u].op = "clear_cache"
          /\ t_op[t].name \in DOMAIN c_cache
          /\ c_cache[t_op[t].name] = t_data[t]
          /\ LoadYamlFile(c_files[t_op[t].name]).kind = "return"
          /\ LoadYamlFile(c_files[t_op[t].name]).value # t_data[t]

\* ======================================================================
\*  Specifications
\* ======================================================================
LIdle ==
    /\ op = "find_element"
    /\ locators = <<>>
    /\ clear_first = TRUE
    /\ l_pc = "off"
    /\ idx = 0
    /\ errors = <<>>
    /\ attempts = <<>>
    /\ calls = <<>>
    /\ log = <<>>
    /\ found = None
    /\ result = None

LNext ==
    \/ find_element
    \/ DerivedRaises
    \/ click_element
    \/ type_text
    \/ get_text
    \/ is_visible

DNext ==
    \/ DriverFactoryInit
    \/ get_driver
    \/ get_driver_attempt
    \/ quit_driver

\* the fixture takes 'retries' from the configuration, never negative here,
\* so get_driver's loop always ends by returning or re-raising
FNext ==
    \/ driver
    \/ AttemptSucceeds
    \/ AttemptFails

InitLocator == LInit /\ DIdle /\ FIdle /\ ExtIdle
InitDriver == LIdle /\ DIdle /\ FIdle /\ ExtIdle
InitFixture == LIdle /\ DIdle /\ FInit /\ ExtIdle

\* the locator utility on a live page
SpecLocator == InitLocator /\ [][LNext]_vars

\* a caller driving a DriverFactory directly
SpecDriver == InitDriver /\ [][DNext]_vars

\* one test that requests the driver fixture
SpecFixture == InitFixture /\ [][FNext]_vars

CInitCache ==
    /\ c_files \in [Names -> CacheFiles]
    /\ c_cache = EmptyCache
    /\ c_call = NoCall
    /\ c_last = COp("none", "config", NoKey, None, 0)
    /\ c_result = None

CInitGet ==
    /\ c_files \in {[n \in Names |-> IF n = "config" THEN Yaml(d) ELSE Missing] : d \in GetDocs}
    /\ c_cache = EmptyCache
    /\ c_call \in GetCalls
    /\ c_last = COp("none", "config", NoKey, None, 0)
    /\ c_result = None

CInitMatrix ==
    /\ c_files \in {[n \in Names |-> IF n = "browsers" THEN f ELSE Missing] :
                       f \in {Missing} \cup {Yaml(d) : d \in MatrixDocs}}
    /\ c_cache = EmptyCache
    /\ c_call = NoCall
    /\ c_last = COp("none", "config", NoKey, None, 0)
    /\ c_result = None

RNext ==
    \/ init
    \/ reporter
    \/ reset
    \/ is_initialized
    \/ AllureReporterOp
    \/ log_info
    \/ attach_remote_capabilities

CacheNext ==
    \/ load_config
    \/ get_all
    \/ reload_config
    \/ clear_cache
    \/ WriteFile

GetNext ==
    \/ get
    \/ clear_cache

MatrixNext ==
    \/ get_browser_matrix
    \/ get_browser_config
    \/ clear_cache

UNext ==
    \/ ResolveEndpoint
    \/ BuildWsEndpoint

InitReporting == LIdle /\ DIdle /\ FIdle /\ RIdle /\ CIdle /\ UIdle /\ PIdle /\ TIdle
InitConfigCache == LIdle /\ DIdle /\ FIdle /\ RIdle /\ CInitCache /\ UIdle /\ PIdle /\ TIdle
InitConfigGet == LIdle /\ DIdle /\ FIdle /\ RIdle /\ CInitGet /\ UIdle /\ PIdle /\ TIdle
InitMatrix == LIdle /\ DIdle /\ FIdle /\ RIdle /\ CInitMatrix /\ UIdle /\ PIdle /\ TIdle
InitRemote == LIdle /\ DIdle /\ FIdle /\ RIdle /\ CIdle /\ UInit /\ PIdle /\ TIdle

\* the reporting facade over the life of a process
SpecReporting == InitReporting /\ [][RNext]_vars

\* one ConfigLoader and the files under it
SpecConfigCache == InitConfigCache /\ [][CacheNext]_vars

\* get on a configuration document
SpecConfigGet == InitConfigGet /\ [][GetNext]_vars

\* get_browser_matrix on a browsers.yaml document
SpecMatrix == InitMatrix /\ [][MatrixNext]_vars

\* the endpoint of a remote session, from the constructor's inputs
SpecRemote == InitRemote /\ [][UNext]_vars

PNext ==
    \/ ConstructInline
    \/ LocalProfileRead
    \/ RemoteCapabilities
    \/ ProfileQuit

TNext ==
    \/ \E t \in Threads : ThreadCall(t)
    \/ \E t \in Threads : ThreadCheck(t)
    \/ \E t \in Threads : ThreadHit(t)
    \/ \E t \in Threads : ThreadExists(t)
    \/ \E t \in Threads : ThreadRead(t)
    \/ \E t \in Threads : ThreadStore(t)
    \/ \E t \in Threads : ThreadReloadCheck(t)
    \/ \E t \in Threads : ThreadReloadDel(t)
    \/ \E t \in Threads : ThreadClear(t)
    \/ FileEdited

InitProfile == LIdle /\ DIdle /\ FIdle /\ RIdle /\ CIdle /\ UIdle /\ PInit /\ TIdle
InitThreads == LIdle /\ DIdle /\ FIdle /\ RIdle /\ CInitThreads /\ UIdle /\ PIdle /\ TInit

\* SpecProfile: a factory built from an inline profile dictionary
SpecProfile == InitProfile /\ [][PNext]_vars

\* SpecThreads: threads sharing one ConfigLoader
SpecThreads == InitThreads /\ [][TNext]_vars

====
